---- MODULE Spec2Model ----
(***************************************************************************)
(* Model of the dosido multi-round pairing engine (app/matching.py,        *)
(* app/scoring.py) together with the round loop that drives it in the      *)
(* tests (tests/test_matching.py, tests/test_simulation.py).               *)
(*                                                                         *)
(* Strings (attendee ids, pair keys, locations) are sequences of ASCII     *)
(* codes, so that sorting, joining and lower-casing are computed as        *)
(* Python computes them.  A float score is an integer here: every score    *)
(* the scorer produces is integer-valued, and the only non-integer factor, *)
(* the 0.95 lookahead discount, is kept exact by storing graph weights in  *)
(* units of 1/20.                                                          *)
(***************************************************************************)
EXTENDS Integers, Sequences, FiniteSets, TLC

\* ------------------------------------------------------------------------
\* Bounds of the model
\* ------------------------------------------------------------------------
MaxRounds == 4
MaxPoolChanges == 1
MaxCount == 2

\* ------------------------------------------------------------------------
\* Strings
\* ------------------------------------------------------------------------
Colon == 58

\* Python's str < str: lexicographic on code points, a proper prefix is smaller.
RECURSIVE StrLess(_, _)
StrLess(s, t) ==
    IF t = <<>> THEN FALSE
    ELSE IF s = <<>> THEN TRUE
    ELSE IF Head(s) # Head(t) THEN Head(s) < Head(t)
    ELSE StrLess(Tail(s), Tail(t))

\* str.lower() on ASCII text: 'A'..'Z' are moved to 'a'..'z'.
Lower(s) == [i \in DOMAIN s |-> IF s[i] \in 65..90 THEN s[i] + 32 ELSE s[i]]

\* None, where the code has an optional id (pit_stop_id: str | None).
NoneId == <<>>

\* ------------------------------------------------------------------------
\* app/scoring.py
\* ------------------------------------------------------------------------

\* make_pair_key as a plain concatenation of its arguments in the given order:
\* the slip of leaving out sorted().
make_pair_key_unsorted(id_a, id_b) == id_a \o <<Colon>> \o id_b

\* ":".join(sorted([id_a, id_b]))
make_pair_key(id_a, id_b) ==
    IF StrLess(id_b, id_a) THEN id_b \o <<Colon>> \o id_a
    ELSE id_a \o <<Colon>> \o id_b

\* float("-inf") and a finite score, as one shape of value.
NegInf == [neg_inf |-> TRUE, num |-> 0]
Finite(n) == [neg_inf |-> FALSE, num |-> n]

\* The mutual_signals argument: None, or a dict from id to a list of ids.
NoSignals == [is_none |-> TRUE, map |-> <<>>]
Signals(m) == [is_none |-> FALSE, map |-> m]

\* _signal_boost: +5 for every signalled interest whose precomputed score
\* with the candidate is above 70.
SignalThreshold == 70
SignalBonus == 5
\* _signal_boost that counts a score of exactly 70 (>= in place of >).
RECURSIVE BoostOver_at_least(_, _, _)
BoostOver_at_least(interests, candidate_id, compatibility_scores) ==
    IF interests = <<>> THEN 0
    ELSE LET similarity_key == make_pair_key(candidate_id, Head(interests))
             similarity == IF similarity_key \in DOMAIN compatibility_scores
                           THEN compatibility_scores[similarity_key] ELSE 0
         IN (IF similarity >= SignalThreshold THEN SignalBonus ELSE 0)
            + BoostOver_at_least(Tail(interests), candidate_id, compatibility_scores)

RECURSIVE BoostOver(_, _, _)
BoostOver(interests, candidate_id, compatibility_scores) ==
    IF interests = <<>> THEN 0
    ELSE LET similarity_key == make_pair_key(candidate_id, Head(interests))
             similarity == IF similarity_key \in DOMAIN compatibility_scores
                           THEN compatibility_scores[similarity_key] ELSE 0
         IN (IF similarity > SignalThreshold THEN SignalBonus ELSE 0)
            + BoostOver(Tail(interests), candidate_id, compatibility_scores)

signal_boost(from_id, candidate_id, mutual_signals, compatibility_scores) ==
    LET interests == IF from_id \in DOMAIN mutual_signals
                     THEN mutual_signals[from_id] ELSE <<>>
    IN BoostOver(interests, candidate_id, compatibility_scores)

RoleBonusEach == 15
LaneBonus == 10
ClimateEach == 5
TopClimateBonus == 10

\* The role bonus with the second +15 outside the test a.role != b.role.
role_bonus_unguarded(a, b) ==
    (IF a.role # b.role /\ a.role_needed = b.role THEN RoleBonusEach ELSE 0)
    + (IF b.role_needed = a.role THEN RoleBonusEach ELSE 0)

role_bonus(a, b) ==
    IF a.role # b.role
    THEN (IF a.role_needed = b.role THEN RoleBonusEach ELSE 0)
         + (IF b.role_needed = a.role THEN RoleBonusEach ELSE 0)
    ELSE 0

\* The lane bonus that looks at one order only (a the idea-holder).
lane_bonus_one_way(a, b) ==
    IF a.lane = "idea" /\ b.lane = "joiner" THEN LaneBonus ELSE 0

lane_bonus(a, b) ==
    IF (a.lane = "idea" /\ b.lane = "joiner") \/ (a.lane = "joiner" /\ b.lane = "idea")
    THEN LaneBonus ELSE 0

climate_bonus(a, b) ==
    LET climate_overlap == Cardinality(a.climate_areas \cap b.climate_areas)
        top_match == IF a.top_climate_area # "" /\ a.top_climate_area = b.top_climate_area
                     THEN TopClimateBonus ELSE 0
    IN climate_overlap * ClimateEach + top_match

\* The co-location test of match_score (scoring.py lines 45-51).
colocated_conflict_no_lower(a, b) ==
    /\ a.arrangement = "colocated"
    /\ b.arrangement = "colocated"
    /\ a.location # <<>>
    /\ b.location # <<>>
    /\ a.location # b.location

colocated_conflict(a, b) ==
    /\ a.arrangement = "colocated"
    /\ b.arrangement = "colocated"
    /\ a.location # <<>>
    /\ b.location # <<>>
    /\ Lower(a.location) # Lower(b.location)

\* match_score that takes the fallback whenever the score is 0, entry or not.
match_score_double_on_zero(a, b, compatibility_matrix, pairing_history, mutual_signals, compatibility_scores) ==
    LET pair_key == make_pair_key(a.id, b.id)
        llm_score == IF pair_key \in DOMAIN compatibility_matrix
                     THEN compatibility_matrix[pair_key].score ELSE 0
        bonuses == role_bonus(a, b) + lane_bonus(a, b) + climate_bonus(a, b)
        signal_boost_total ==
            IF ~mutual_signals.is_none /\ DOMAIN mutual_signals.map # {}
               /\ DOMAIN compatibility_scores # {}
            THEN signal_boost(a.id, b.id, mutual_signals.map, compatibility_scores)
                 + signal_boost(b.id, a.id, mutual_signals.map, compatibility_scores)
            ELSE 0
    IN IF pair_key \in pairing_history THEN NegInf
       ELSE IF colocated_conflict(a, b) THEN NegInf
       ELSE IF llm_score = 0 THEN Finite(bonuses * 2)
       ELSE Finite(llm_score + bonuses + signal_boost_total)

\* match_score without the "already met" test.
match_score_no_history(a, b, compatibility_matrix, pairing_history, mutual_signals, compatibility_scores) ==
    LET pair_key == make_pair_key(a.id, b.id)
        llm_score == IF pair_key \in DOMAIN compatibility_matrix
                     THEN compatibility_matrix[pair_key].score ELSE 0
        bonuses == role_bonus(a, b) + lane_bonus(a, b) + climate_bonus(a, b)
    IN IF colocated_conflict(a, b) THEN NegInf
       ELSE IF llm_score = 0 /\ pair_key \notin DOMAIN compatibility_matrix
            THEN Finite(bonuses * 2)
       ELSE Finite(llm_score + bonuses)

match_score(a, b, compatibility_matrix, pairing_history, mutual_signals, compatibility_scores) ==
    LET pair_key == make_pair_key(a.id, b.id)
        llm_score == IF pair_key \in DOMAIN compatibility_matrix
                     THEN compatibility_matrix[pair_key].score ELSE 0
        bonuses == role_bonus(a, b) + lane_bonus(a, b) + climate_bonus(a, b)
        signal_boost_total ==
            IF ~mutual_signals.is_none /\ DOMAIN mutual_signals.map # {}
               /\ DOMAIN compatibility_scores # {}
            THEN signal_boost(a.id, b.id, mutual_signals.map, compatibility_scores)
                 + signal_boost(b.id, a.id, mutual_signals.map, compatibility_scores)
            ELSE 0
    IN IF pair_key \in pairing_history THEN NegInf
       ELSE IF colocated_conflict(a, b) THEN NegInf
       ELSE IF llm_score = 0 /\ pair_key \notin DOMAIN compatibility_matrix
            THEN Finite(bonuses * 2)
       ELSE Finite(llm_score + bonuses + signal_boost_total)

\* ------------------------------------------------------------------------
\* app/matching.py
\* ------------------------------------------------------------------------

\* Python's order on the candidate tuples (count, is_walk_up, id); False < True.
CandLess(x, y) ==
    \/ x[1] < y[1]
    \/ x[1] = y[1] /\ ~x[2] /\ y[2]
    \/ x[1] = y[1] /\ x[2] = y[2] /\ StrLess(x[3], y[3])

\* list.sort() on the candidate list, as an insertion sort.
RECURSIVE InsertCand(_, _)
InsertCand(x, sorted) ==
    IF sorted = <<>> THEN <<x>>
    ELSE IF CandLess(x, Head(sorted)) THEN <<x>> \o sorted
    ELSE <<Head(sorted)>> \o InsertCand(x, Tail(sorted))

RECURSIVE SortCands(_)
SortCands(cands) ==
    IF cands = <<>> THEN <<>>
    ELSE InsertCand(Head(cands), SortCands(Tail(cands)))

\* pit_stop_counts.get(id, 0)
CountOf(pit_stop_counts, id) ==
    IF id \in DOMAIN pit_stop_counts THEN pit_stop_counts[id] ELSE 0

\* _choose_pit_stop that takes the head of the pool list.
choose_pit_stop_first(pool, pit_stop_counts) == pool[1].id

\* _choose_pit_stop whose key leaves out the count.
choose_pit_stop_no_count(pool, pit_stop_counts) ==
    LET candidates == [i \in 1..Len(pool) |->
                          <<0, pool[i].source = "walk-up", pool[i].id>>]
    IN SortCands(candidates)[1][3]

\* _choose_pit_stop
choose_pit_stop(pool, pit_stop_counts) ==
    LET candidates == [i \in 1..Len(pool) |->
                          <<CountOf(pit_stop_counts, pool[i].id),
                            pool[i].source = "walk-up",
                            pool[i].id>>]
    IN SortCands(candidates)[1][3]

\* The 0.95 discount and the clamp to non-negative, in units of 1/20:
\* weight * 0.95 is 19 * weight / 20.
WeightScale == 20
DiscountedScale == 19
DiscountAbove == 3

edge_weight(score, rounds_remaining) ==
    LET weight == IF rounds_remaining > DiscountAbove
                  THEN score * DiscountedScale ELSE score * WeightScale
    IN IF weight > 0 THEN weight ELSE 0

\* The graph of _solve_single_round (lines 123-153) that keeps forbidden pairs
\* as edges of weight 0.
build_graph_keep_forbidden(pool, compatibility_matrix, pairing_history, rounds_remaining, mutual_signals, compatibility_scores) ==
    { [u |-> pool[i].id, v |-> pool[j].id,
       weight |-> IF match_score(pool[i], pool[j], compatibility_matrix, pairing_history,
                                 mutual_signals, compatibility_scores).neg_inf
                  THEN 0
                  ELSE edge_weight(match_score(pool[i], pool[j], compatibility_matrix,
                                   pairing_history, mutual_signals,
                                   compatibility_scores).num, rounds_remaining)] :
      <<i, j>> \in { p \in (1..Len(pool)) \X (1..Len(pool)) : p[1] < p[2] } }

\* The graph of _solve_single_round (lines 123-153): one edge for each pair
\* i < j of the working pool whose score is not -inf.  The pool's ids are
\* distinct (a precondition of the engine), so attendee_map has one entry
\* for each pool member.
build_graph(pool, compatibility_matrix, pairing_history, rounds_remaining, mutual_signals, compatibility_scores) ==
    { [u |-> pool[p[1]].id, v |-> pool[p[2]].id,
       weight |-> edge_weight(match_score(pool[p[1]], pool[p[2]], compatibility_matrix,
                              pairing_history, mutual_signals,
                              compatibility_scores).num, rounds_remaining)] :
      p \in { q \in (1..Len(pool)) \X (1..Len(pool)) :
                /\ q[1] < q[2]
                /\ ~match_score(pool[q[1]], pool[q[2]], compatibility_matrix,
                                pairing_history, mutual_signals,
                                compatibility_scores).neg_inf } }

\* All matchings (sets of vertex-disjoint edges) of a graph over the nodes.
RECURSIVE MatchingsOf(_, _)
MatchingsOf(nodes, graph) ==
    IF nodes = {} THEN {{}}
    ELSE LET n == CHOOSE x \in nodes : TRUE
             rest == nodes \ {n}
             at_n == { e \in graph : (e.u = n /\ e.v \in rest) \/ (e.v = n /\ e.u \in rest) }
         IN MatchingsOf(rest, graph)
            \cup UNION { { {e} \cup m : m \in MatchingsOf(rest \ {e.u, e.v}, graph) } :
                         e \in at_n }

RECURSIVE TotalWeight(_)
TotalWeight(m) ==
    IF m = {} THEN 0
    ELSE LET e == CHOOSE x \in m : TRUE IN e.weight + TotalWeight(m \ {e})

GraphNodes(graph) == { e.u : e \in graph } \cup { e.v : e \in graph }

MaxOf(numbers) == CHOOSE n \in numbers : \A k \in numbers : k <= n

\* nx.max_weight_matching(graph) with maxcardinality left at False: a matching
\* of maximum weight of any size.
max_weight_matching_any_size(graph) ==
    LET all == MatchingsOf(GraphNodes(graph), graph)
        heaviest == MaxOf({ TotalWeight(m) : m \in all })
    IN { m \in all : TotalWeight(m) = heaviest }

\* nx.max_weight_matching(graph, maxcardinality=True): the library returns one
\* matching of maximum weight among those of maximum cardinality; which one,
\* when several tie, is the library's choice.
max_weight_matching(graph) ==
    LET all == MatchingsOf(GraphNodes(graph), graph)
        size == MaxOf({ Cardinality(m) : m \in all })
        largest == { m \in all : Cardinality(m) = size }
        heaviest == MaxOf({ TotalWeight(m) : m \in largest })
    IN { m \in largest : TotalWeight(m) = heaviest }

\* The library reports a matching as a set of 2-tuples; which end of an edge
\* comes first is the library's choice.
Reported(m) ==
    { { IF f[e] THEN <<e.u, e.v>> ELSE <<e.v, e.u>> : e \in m } : f \in [m -> BOOLEAN] }

\* Python's order on 2-tuples of strings.
TupleLess(x, y) == StrLess(x[1], y[1]) \/ (x[1] = y[1] /\ StrLess(x[2], y[2]))

\* sorted(matching)
RECURSIVE SortedTuples(_)
SortedTuples(s) ==
    IF s = {} THEN <<>>
    ELSE LET least == CHOOSE x \in s : \A y \in s \ {x} : TupleLess(x, y)
         IN <<least>> \o SortedTuples(s \ {least})

\* The parity test of line 116 turned around.
needs_pit_stop_even(pool) == Len(pool) % 2 = 0

\* len(pool) % 2 == 1
needs_pit_stop(pool) == Len(pool) % 2 = 1

\* The pit stop left in the working pool.
WithoutId_keep(pool, id) == pool

\* The pool without the pit stop: [a for a in pool if a.id != pit_stop_id].
RECURSIVE WithoutId(_, _)
WithoutId(pool, id) ==
    IF pool = <<>> THEN <<>>
    ELSE IF Head(pool).id = id THEN WithoutId(Tail(pool), id)
    ELSE <<Head(pool)>> \o WithoutId(Tail(pool), id)

AttendeeWithId(pool, id) == CHOOSE a \in { pool[i] : i \in 1..Len(pool) } : a.id = id

\* to_pairings that writes id_a into both seats.
to_pairings_same_id(tuples, pool, compatibility_matrix, pairing_history, mutual_signals, compatibility_scores) ==
    [t \in 1..Len(tuples) |->
        [table_number |-> t,
         attendee_a |-> tuples[t][1],
         attendee_b |-> tuples[t][1],
         composite_score |-> match_score(AttendeeWithId(pool, tuples[t][1]),
                                         AttendeeWithId(pool, tuples[t][2]),
                                         compatibility_matrix, pairing_history,
                                         mutual_signals, compatibility_scores)]]

\* to_pairings with enumerate() left at its default start of 0.
to_pairings_from_zero(tuples, pool, compatibility_matrix, pairing_history, mutual_signals, compatibility_scores) ==
    [t \in 1..Len(tuples) |->
        [table_number |-> t - 1,
         attendee_a |-> tuples[t][1],
         attendee_b |-> tuples[t][2],
         composite_score |-> match_score(AttendeeWithId(pool, tuples[t][1]),
                                         AttendeeWithId(pool, tuples[t][2]),
                                         compatibility_matrix, pairing_history,
                                         mutual_signals, compatibility_scores)]]

\* to_pairings that attaches the score as the graph stores it: max(score, 0).
to_pairings_clamped(tuples, pool, compatibility_matrix, pairing_history, mutual_signals, compatibility_scores) ==
    [t \in 1..Len(tuples) |->
        LET composite == match_score(AttendeeWithId(pool, tuples[t][1]),
                                     AttendeeWithId(pool, tuples[t][2]),
                                     compatibility_matrix, pairing_history,
                                     mutual_signals, compatibility_scores)
        IN [table_number |-> t,
            attendee_a |-> tuples[t][1],
            attendee_b |-> tuples[t][2],
            composite_score |-> IF composite.num < 0 THEN Finite(0) ELSE composite]]

\* Lines 158-176: number the sorted tuples from 1 and attach the recomputed score.
to_pairings(tuples, pool, compatibility_matrix, pairing_history, mutual_signals, compatibility_scores) ==
    [t \in 1..Len(tuples) |->
        [table_number |-> t,
         attendee_a |-> tuples[t][1],
         attendee_b |-> tuples[t][2],
         composite_score |-> match_score(AttendeeWithId(pool, tuples[t][1]),
                                         AttendeeWithId(pool, tuples[t][2]),
                                         compatibility_matrix, pairing_history,
                                         mutual_signals, compatibility_scores)]]

\* _solve_single_round: the set of results the call can return.
solve_single_round(active_pool, compatibility_matrix, pairing_history, rounds_remaining, pit_stop_counts, mutual_signals, compatibility_scores) ==
    LET odd == needs_pit_stop(active_pool)
        pit_stop_id == IF odd THEN choose_pit_stop(active_pool, pit_stop_counts) ELSE NoneId
        pool == IF odd THEN WithoutId(active_pool, pit_stop_id) ELSE active_pool
    IN IF Len(pool) < 2 THEN { [pairings |-> <<>>, pit_stop |-> pit_stop_id] }
       ELSE LET graph == build_graph(pool, compatibility_matrix, pairing_history,
                                     rounds_remaining, mutual_signals, compatibility_scores)
            IN { [pairings |-> to_pairings(SortedTuples(r), pool, compatibility_matrix,
                                           pairing_history, mutual_signals,
                                           compatibility_scores),
                  pit_stop |-> pit_stop_id] :
                 r \in UNION { Reported(m) : m \in max_weight_matching(graph) } }

\* make_pair_key of each pairing, added to a history set (lines 92-94).
FoldHistory(history, pairings) ==
    history \cup { make_pair_key(pairings[t].attendee_a, pairings[t].attendee_b) :
                   t \in 1..Len(pairings) }

\* counts[id] = counts.get(id, 0) + 1 when there is a pit stop (lines 96-97).
FoldPitStop(counts, pit_stop_id) ==
    IF pit_stop_id # NoneId
    THEN [id \in DOMAIN counts \cup {pit_stop_id} |->
            IF id = pit_stop_id THEN CountOf(counts, id) + 1 ELSE counts[id]]
    ELSE counts

\* The loop of _solve_remaining_rounds from round_idx on: the set of schedule
\* tails it can build from the simulated history and pit-stop counts.
RECURSIVE schedules_from(_, _, _, _, _, _, _, _)
schedules_from(round_idx, active_pool, compatibility_matrix, simulated_history, rounds_remaining, simulated_pit_stops, mutual_signals, compatibility_scores) ==
    IF round_idx >= rounds_remaining THEN { <<>> }
    ELSE UNION {
           { <<r>> \o rest :
             rest \in schedules_from(round_idx + 1, active_pool, compatibility_matrix,
                                     FoldHistory(simulated_history, r.pairings),
                                     rounds_remaining,
                                     FoldPitStop(simulated_pit_stops, r.pit_stop),
                                     mutual_signals, compatibility_scores) } :
           r \in solve_single_round(active_pool, compatibility_matrix, simulated_history,
                                    rounds_remaining - round_idx, simulated_pit_stops,
                                    mutual_signals, compatibility_scores) }

\* _solve_remaining_rounds: the set of schedules the call can return.
solve_remaining_rounds(active_pool, compatibility_matrix, pairing_history, rounds_remaining, pit_stop_counts, mutual_signals, compatibility_scores) ==
    schedules_from(0, active_pool, compatibility_matrix, pairing_history,
                   rounds_remaining, pit_stop_counts, mutual_signals,
                   compatibility_scores)

NoRound == [pairings |-> <<>>, pit_stop |-> NoneId]

\* Lines 41-44: the flat map from pair key to score.
extract_scores(compatibility_matrix) ==
    [key \in DOMAIN compatibility_matrix |-> compatibility_matrix[key].score]

\* Whether the loop of _solve_remaining_rounds, at round_idx with the simulated
\* history and counts, runs to its end: every later iteration has a result.
RECURSIVE loop_finishes(_, _, _, _, _, _, _, _)
loop_finishes(round_idx, active_pool, compatibility_matrix, simulated_history, rounds_remaining, simulated_pit_stops, mutual_signals, compatibility_scores) ==
    \/ round_idx >= rounds_remaining
    \/ \E r \in solve_single_round(active_pool, compatibility_matrix, simulated_history,
                                   rounds_remaining - round_idx, simulated_pit_stops,
                                   mutual_signals, compatibility_scores) :
          loop_finishes(round_idx + 1, active_pool, compatibility_matrix,
                        FoldHistory(simulated_history, r.pairings), rounds_remaining,
                        FoldPitStop(simulated_pit_stops, r.pit_stop),
                        mutual_signals, compatibility_scores)

\* simulated = original in place of deepcopy(original): the loop writes to
\* the caller's own object.
after_writes_shared(original, written) == written

\* simulated_history = deepcopy(pairing_history), simulated_pit_stops =
\* deepcopy(pit_stop_counts) (lines 75-76): the loop writes to the copies, so
\* the caller's object holds after the loop what it held before.
after_writes_to_deepcopy(original, written) == original

\* The simulated history and pit-stop counts when the loop of
\* _solve_remaining_rounds ends, on one run of its iterations from round_idx.
RECURSIVE simulated_at_end(_, _, _, _, _, _, _, _)
simulated_at_end(round_idx, active_pool, compatibility_matrix, simulated_history, rounds_remaining, simulated_pit_stops, mutual_signals, compatibility_scores) ==
    IF round_idx >= rounds_remaining
    THEN [history |-> simulated_history, pit_stops |-> simulated_pit_stops]
    ELSE LET r == CHOOSE x \in solve_single_round(active_pool, compatibility_matrix,
                                                  simulated_history,
                                                  rounds_remaining - round_idx,
                                                  simulated_pit_stops, mutual_signals,
                                                  compatibility_scores) : TRUE
         IN simulated_at_end(round_idx + 1, active_pool, compatibility_matrix,
                             FoldHistory(simulated_history, r.pairings), rounds_remaining,
                             FoldPitStop(simulated_pit_stops, r.pit_stop),
                             mutual_signals, compatibility_scores)

\* What the caller's pairing_history and pit_stop_counts hold when solve_round
\* returns the round first: nothing is written before the early return of
\* line 38, and the loop writes the pairings and the pit stop of every
\* simulated round to the simulated objects.
caller_objects_after(first, active_pool, compatibility_matrix, pairing_history, rounds_remaining, pit_stop_counts, mutual_signals) ==
    IF Len(active_pool) < 2 \/ rounds_remaining <= 0
    THEN [history |-> pairing_history, pit_stops |-> pit_stop_counts]
    ELSE LET end == simulated_at_end(1, active_pool, compatibility_matrix,
                                     FoldHistory(pairing_history, first.pairings),
                                     rounds_remaining,
                                     FoldPitStop(pit_stop_counts, first.pit_stop),
                                     mutual_signals, extract_scores(compatibility_matrix))
         IN [history |-> after_writes_to_deepcopy(pairing_history, end.history),
             pit_stops |-> after_writes_to_deepcopy(pit_stop_counts, end.pit_stops)]

\* solve_round that returns the last round of the schedule instead of the first.
solve_round_last(active_pool, compatibility_matrix, pairing_history, rounds_remaining, pit_stop_counts, mutual_signals) ==
    IF Len(active_pool) < 2 THEN { NoRound }
    ELSE { IF schedule = <<>> THEN NoRound ELSE schedule[Len(schedule)] :
           schedule \in solve_remaining_rounds(active_pool, compatibility_matrix,
                                               pairing_history, rounds_remaining,
                                               pit_stop_counts, mutual_signals,
                                               extract_scores(compatibility_matrix)) }

\* solve_round without the early return for pools of fewer than two.
solve_round_no_early_return(active_pool, compatibility_matrix, pairing_history, rounds_remaining, pit_stop_counts, mutual_signals) ==
    IF rounds_remaining <= 0 THEN { NoRound }
    ELSE LET compatibility_scores == extract_scores(compatibility_matrix)
         IN { r \in solve_single_round(active_pool, compatibility_matrix, pairing_history,
                                       rounds_remaining, pit_stop_counts, mutual_signals,
                                       compatibility_scores) :
              loop_finishes(1, active_pool, compatibility_matrix,
                            FoldHistory(pairing_history, r.pairings), rounds_remaining,
                            FoldPitStop(pit_stop_counts, r.pit_stop),
                            mutual_signals, compatibility_scores) }

\* solve_round: the set of (pairings, pit stop) results the call can return,
\* that is schedule[0] over the schedules of solve_remaining_rounds.  The set
\* is written without building the schedules: a first round is returned when
\* the loop's later iterations, started from the simulated state that round
\* leaves, run to the end.
solve_round(active_pool, compatibility_matrix, pairing_history, rounds_remaining, pit_stop_counts, mutual_signals) ==
    IF Len(active_pool) < 2 THEN { NoRound }
    ELSE IF rounds_remaining <= 0 THEN { NoRound }
    ELSE LET compatibility_scores == extract_scores(compatibility_matrix)
         IN { r \in solve_single_round(active_pool, compatibility_matrix, pairing_history,
                                       rounds_remaining, pit_stop_counts, mutual_signals,
                                       compatibility_scores) :
              loop_finishes(1, active_pool, compatibility_matrix,
                            FoldHistory(pairing_history, r.pairings), rounds_remaining,
                            FoldPitStop(pit_stop_counts, r.pit_stop),
                            mutual_signals, compatibility_scores) }

\* ------------------------------------------------------------------------
\* Inputs of the event: attendees, compatibility matrix, signals, history
\* ------------------------------------------------------------------------

\* Attendee ids "2", "10", "a", "1", "c": the tests use str(i), the
\* application 8 characters of a uuid4 (digits and a-f).
AllIds == << <<50>>, <<49, 48>>, <<97>>, <<49>>, <<99>> >>

People == DOMAIN AllIds

SF == <<83, 70>>
sf == <<115, 102>>
NYC == <<78, 89, 67>>
NoLocation == <<>>

\* make_attendee of tests/test_matching.py with its defaults.
UniformAttendee(i) ==
    [id |-> AllIds[i], role |-> "engineering", role_needed |-> "product",
     lane |-> "idea", climate_areas |-> {"energy"}, top_climate_area |-> "energy",
     arrangement |-> "remote-open", location |-> SF, source |-> "application"]

\* Attendees that differ in every field the engine reads.
MixedAttendee(i) ==
    [id |-> AllIds[i],
     role |-> <<"engineering", "product", "gtm">>[(i % 3) + 1],
     role_needed |-> <<"engineering", "product", "gtm">>[((i + 1) % 3) + 1],
     lane |-> <<"idea", "joiner", "flexible">>[(i % 3) + 1],
     climate_areas |-> IF i % 2 = 0 THEN {"energy", "water"} ELSE {"energy"},
     top_climate_area |-> IF i % 2 = 0 THEN "water" ELSE "energy",
     arrangement |-> IF i % 3 = 0 THEN "remote-open" ELSE "colocated",
     location |-> <<SF, sf, NYC, NoLocation>>[(i % 4) + 1],
     source |-> IF i % 4 = 1 THEN "walk-up" ELSE "application"]

UniformRoster == [i \in People |-> UniformAttendee(i)]
MixedRoster == [i \in People |-> MixedAttendee(i)]

IndexPairs == { p \in People \X People : p[1] < p[2] }
KeyOf(p) == make_pair_key(AllIds[p[1]], AllIds[p[2]])
PairOfKey(key) == CHOOSE p \in IndexPairs : KeyOf(p) = key

\* No entries: every pair falls back to the deterministic score.
EmptyMatrix == [key \in {} |-> [score |-> 0]]

\* {"score": 50} for every pair (tests/test_matching.py).
UniformMatrix == [key \in { KeyOf(p) : p \in IndexPairs } |-> [score |-> 50]]

\* {"score": 50 + i + j} (tests/test_matching.py, test_basic_even_pool).
SumMatrix ==
    [key \in { KeyOf(p) : p \in IndexPairs } |->
        [score |-> 50 + PairOfKey(key)[1] + PairOfKey(key)[2]]]

\* Entries for part of the pairs, with scores 0, 20, .., 80.
PartialMatrix ==
    [key \in { KeyOf(p) : p \in { q \in IndexPairs : (q[1] + q[2]) % 3 # 0 } } |->
        [score |-> ((PairOfKey(key)[1] * PairOfKey(key)[2] * 17) % 5) * 20]]

\* Scores under which the best pairing of the first round uses up a pair
\* that a later round needs.
SkewedScore(p) ==
    IF p = <<3, 5>> \/ p = <<1, 4>> THEN 100
    ELSE IF p = <<2, 3>> \/ p = <<1, 5>> THEN 50
    ELSE IF p = <<1, 2>> THEN 1
    ELSE 0
SkewedMatrix ==
    [key \in { KeyOf(p) : p \in IndexPairs } |-> [score |-> SkewedScore(PairOfKey(key))]]

NoSignalsGiven == NoSignals
SomeSignals ==
    Signals([id \in {AllIds[1], AllIds[2]} |->
               IF id = AllIds[1] THEN <<AllIds[2], AllIds[3]>> ELSE <<AllIds[1]>>])

NoHistory == {}
SomeHistory == { KeyOf(<<1, 2>>), KeyOf(<<3, 4>>) }

\* Attendee "1" has already met "a" and "c" (a history carried into the event).
MetTwoHistory == { KeyOf(<<3, 4>>), KeyOf(<<4, 5>>) }

\* The events the model runs: who attends, which scores exist, which signals
\* were given and which pairs have met before the first round.
Scenario(r, m, s, h) == [roster |-> r, matrix |-> m, signals |-> s, history |-> h]
Scenarios ==
    { Scenario(UniformRoster, UniformMatrix, NoSignalsGiven, NoHistory),
      Scenario(UniformRoster, SkewedMatrix, NoSignalsGiven, NoHistory),
      Scenario(UniformRoster, SkewedMatrix, NoSignalsGiven, MetTwoHistory),
      Scenario(UniformRoster, EmptyMatrix, NoSignalsGiven, NoHistory),
      Scenario(UniformRoster, SumMatrix, SomeSignals, SomeHistory),
      Scenario(MixedRoster, SumMatrix, NoSignalsGiven, NoHistory),
      Scenario(MixedRoster, PartialMatrix, SomeSignals, NoHistory),
      Scenario(MixedRoster, PartialMatrix, SomeSignals, SomeHistory),
      Scenario(MixedRoster, EmptyMatrix, NoSignalsGiven, SomeHistory) }

EmptyCounts == [id \in {} |-> 0]

\* ------------------------------------------------------------------------
\* State: the inputs of solve_round as the round loop holds them, and the
\* last result
\* ------------------------------------------------------------------------
VARIABLES
    roster,                \* the event's attendees, by position
    active_pool,           \* list of checked-in attendees
    compatibility_matrix,  \* pair key -> {score}
    mutual_signals,        \* None or id -> list of ids
    pairing_history,       \* set of pair keys already matched
    pit_stop_counts,       \* id -> number of pit stops
    rounds_remaining,      \* rounds left including the next one
    pc,                    \* "idle": before a solve_round call; "solved": result in hand
    result,                \* what the last solve_round call returned
    rounds_log,            \* the pair keys of each round solved so far, in order
    pool_changes,          \* number of check-ins and check-outs so far
    score,                 \* what the last match_score call returned
    chosen,                \* what the last _choose_pit_stop call returned
    pair_keys              \* what the last make_pair_key calls returned

\* The event as app/state.py keeps it in Redis, and the requests made of it.
VARIABLES
    state,                 \* event:{slug}:state, an EventState
    current_pairings,      \* event:{slug}:current_pairings: None or a RoundResult
    round_pairings,        \* event:{slug}:round:{n}:pairings, by round number
    signals,               \* event:{slug}:signals:{round}: from_id -> to_id, by round
    mutual_matches,        \* event:{slug}:mutual_matches, a set of pair keys
    now,                   \* the clock, in ticks
    response,              \* the answer to the last request
    requests               \* the advance-round requests in flight, by request

event_vars == <<state, current_pairings, round_pairings, signals, mutual_matches,
                now, response, requests>>

vars == <<roster, active_pool, compatibility_matrix, mutual_signals, pairing_history,
          pit_stop_counts, rounds_remaining, pc, result, rounds_log, pool_changes,
          score, chosen, pair_keys, event_vars>>

\* Python's None for an optional value, and a value that is present.
None == <<>>
Some(x) == <<x>>

\* EventState(rounds_remaining=settings.total_rounds): what get_state returns
\* before any state is stored.
EventState(total_rounds) ==
    [round_number |-> 0, rounds_remaining |-> total_rounds, status |-> "pre-event",
     timer_end |-> None, timer_paused |-> FALSE, timer_remaining |-> None]

NoRequests == [q \in {} |-> None]
NoResponse == [serial |-> 0, op |-> "none", status |-> 0, round |-> None,
               state |-> None, mutual |-> FALSE]

\* An empty Redis: no stored state, round, signal or mutual match.
EmptyStore ==
    /\ current_pairings = None
    /\ round_pairings = <<>>
    /\ signals = <<>>
    /\ mutual_matches = {}
    /\ now = 0
    /\ response = NoResponse
    /\ requests = NoRequests

\* The engine called on its own: no event is running.
NoEvent == state = EventState(0) /\ EmptyStore

inputs == <<roster, active_pool, compatibility_matrix, mutual_signals, pairing_history,
            pit_stop_counts, rounds_remaining>>

Init ==
    /\ \E sc \in Scenarios :
          /\ roster = sc.roster
          /\ compatibility_matrix = sc.matrix
          /\ mutual_signals = sc.signals
          /\ pairing_history = sc.history
    /\ \E n \in 0..Len(AllIds) : active_pool = [i \in 1..n |-> roster[i]]
    /\ pit_stop_counts = EmptyCounts
    /\ rounds_remaining \in 0..MaxRounds
    /\ pc = "idle"
    /\ result = NoRound
    /\ rounds_log = <<>>
    /\ pool_changes = 0
    /\ score = NegInf
    /\ chosen = NoneId
    /\ pair_keys = <<>>
    /\ NoEvent

PoolIds(pool) == { pool[i].id : i \in 1..Len(pool) }

PairKeys(pairings) ==
    { make_pair_key(pairings[t].attendee_a, pairings[t].attendee_b) : t \in 1..Len(pairings) }

\* The call of solve_round on the current inputs: the result, and what the
\* call leaves in the caller's history and counts.
SolveRound ==
    /\ pc = "idle"
    /\ Len(rounds_log) < MaxRounds
    /\ result' \in solve_round(active_pool, compatibility_matrix, pairing_history,
                               rounds_remaining, pit_stop_counts, mutual_signals)
    /\ LET after == caller_objects_after(result', active_pool, compatibility_matrix,
                                         pairing_history, rounds_remaining,
                                         pit_stop_counts, mutual_signals)
       IN /\ pairing_history' = after.history
          /\ pit_stop_counts' = after.pit_stops
    /\ pc' = "solved"
    /\ rounds_log' = Append(rounds_log, PairKeys(result'.pairings))
    /\ UNCHANGED <<roster, active_pool, compatibility_matrix, mutual_signals,
                   rounds_remaining, pool_changes, score, chosen, pair_keys, event_vars>>

\* The caller's bookkeeping after a round (tests/test_simulation.py lines 55-63):
\* pairings into the history, pit stop into the counts, one round fewer.
FoldRound ==
    /\ pc = "solved"
    /\ pairing_history' = FoldHistory(pairing_history, result.pairings)
    /\ pit_stop_counts' = FoldPitStop(pit_stop_counts, result.pit_stop)
    /\ rounds_remaining' = IF rounds_remaining > 0 THEN rounds_remaining - 1 ELSE 0
    /\ pc' = "idle"
    /\ UNCHANGED <<roster, active_pool, compatibility_matrix, mutual_signals, result,
                   rounds_log, pool_changes, score, chosen, pair_keys, event_vars>>

\* The next attendee of the roster arrives between two rounds.
CheckIn ==
    /\ pc = "idle"
    /\ pool_changes < MaxPoolChanges
    /\ Len(active_pool) < Len(roster)
    /\ active_pool' = Append(active_pool, roster[Len(active_pool) + 1])
    /\ pool_changes' = pool_changes + 1
    /\ UNCHANGED <<roster, compatibility_matrix, mutual_signals, pairing_history,
                   pit_stop_counts, rounds_remaining, pc, result, rounds_log,
                   score, chosen, pair_keys, event_vars>>

\* The attendee at the end of the list leaves between two rounds
\* (pool = pool[:45] in tests/test_simulation.py).
CheckOut ==
    /\ pc = "idle"
    /\ pool_changes < MaxPoolChanges
    /\ Len(active_pool) > 0
    /\ active_pool' = SubSeq(active_pool, 1, Len(active_pool) - 1)
    /\ pool_changes' = pool_changes + 1
    /\ UNCHANGED <<roster, compatibility_matrix, mutual_signals, pairing_history,
                   pit_stop_counts, rounds_remaining, pc, result, rounds_log,
                   score, chosen, pair_keys, event_vars>>

Next == SolveRound \/ FoldRound \/ CheckIn \/ CheckOut

Spec == Init /\ [][Next]_vars

\* ------------------------------------------------------------------------
\* match_score on its own: two attendees and the side tables drawn from
\* small sets, one call
\* ------------------------------------------------------------------------
Arrangements == {"colocated", "remote-open"}
Locations == {SF, sf, NYC, NoLocation}

ScoredAttendee(id, arrangement, location) ==
    [id |-> id, role |-> "engineering", role_needed |-> "product",
     lane |-> "idea", climate_areas |-> {"energy"}, top_climate_area |-> "energy",
     arrangement |-> arrangement, location |-> location, source |-> "application"]

ScoredKey == make_pair_key(AllIds[1], AllIds[2])
OtherKey == make_pair_key(AllIds[1], AllIds[3])

ScoredMatrices ==
    { EmptyMatrix,
      [key \in {ScoredKey} |-> [score |-> 0]],
      [key \in {ScoredKey, OtherKey} |-> [score |-> 80]] }

ScoredHistories == { {}, {ScoredKey}, {OtherKey} }

InitScore ==
    /\ \E ids \in { <<AllIds[1], AllIds[2]>>, <<AllIds[2], AllIds[1]>> } :
       \E arr_a \in Arrangements, arr_b \in Arrangements :
       \E loc_a \in Locations, loc_b \in Locations :
          roster = << ScoredAttendee(ids[1], arr_a, loc_a),
                      ScoredAttendee(ids[2], arr_b, loc_b) >>
    /\ active_pool = <<>>
    /\ compatibility_matrix \in ScoredMatrices
    /\ mutual_signals \in { NoSignalsGiven, SomeSignals }
    /\ pairing_history \in ScoredHistories
    /\ pit_stop_counts = EmptyCounts
    /\ rounds_remaining = 0
    /\ pc = "idle"
    /\ result = NoRound
    /\ rounds_log = <<>>
    /\ pool_changes = 0
    /\ score = NegInf
    /\ chosen = NoneId
    /\ pair_keys = <<>>
    /\ NoEvent

\* The call match_score(a, b, matrix, history, signals, scores).
ScorePair ==
    /\ pc = "idle"
    /\ score' = match_score(roster[1], roster[2], compatibility_matrix, pairing_history,
                            mutual_signals, extract_scores(compatibility_matrix))
    /\ pc' = "scored"
    /\ UNCHANGED <<inputs, result, rounds_log, pool_changes, chosen, pair_keys, event_vars>>

NextScore == ScorePair

SpecScore == InitScore /\ [][NextScore]_vars

\* ------------------------------------------------------------------------
\* _choose_pit_stop on its own: a pool list in any order, any sources, any
\* counts, one call
\* ------------------------------------------------------------------------
PitIds == { AllIds[1], AllIds[2], AllIds[4] }

PitAttendee(id, source) ==
    [id |-> id, role |-> "engineering", role_needed |-> "product",
     lane |-> "idea", climate_areas |-> {"energy"}, top_climate_area |-> "energy",
     arrangement |-> "remote-open", location |-> SF, source |-> source]

\* The lists of distinct ids.
DistinctLists(ids) ==
    UNION { { l \in [1..n -> ids] : \A i, j \in 1..n : i # j => l[i] # l[j] } :
            n \in 1..Cardinality(ids) }

InitPit ==
    /\ \E l \in DistinctLists(PitIds) :
       \E src \in [PitIds -> {"application", "walk-up"}] :
          /\ active_pool = [i \in 1..Len(l) |-> PitAttendee(l[i], src[l[i]])]
          /\ roster = active_pool
    /\ \E known \in SUBSET PitIds : pit_stop_counts \in [known -> 0..MaxCount]
    /\ compatibility_matrix = EmptyMatrix
    /\ mutual_signals = NoSignalsGiven
    /\ pairing_history = {}
    /\ rounds_remaining = 0
    /\ pc = "idle"
    /\ result = NoRound
    /\ rounds_log = <<>>
    /\ pool_changes = 0
    /\ score = NegInf
    /\ chosen = NoneId
    /\ pair_keys = <<>>
    /\ NoEvent

\* The call _choose_pit_stop(pool, pit_stop_counts).
ChoosePitStop ==
    /\ pc = "idle"
    /\ chosen' = choose_pit_stop(active_pool, pit_stop_counts)
    /\ pc' = "chosen"
    /\ UNCHANGED <<inputs, result, rounds_log, pool_changes, score, pair_keys, event_vars>>

NextPit == ChoosePitStop

SpecPit == InitPit /\ [][NextPit]_vars

\* ------------------------------------------------------------------------
\* match_score on its own, over the fields the bonuses and the signal boost
\* read: roles, lanes, climate areas, matrix entries and signal lists
\* ------------------------------------------------------------------------
Roles == {"engineering", "product", "gtm"}
Lanes == {"idea", "joiner", "flexible"}

\* climate_areas with top_climate_area; both are empty by default (models.py).
ClimateProfiles ==
    { [areas |-> {}, top |-> ""],
      [areas |-> {"energy"}, top |-> "energy"],
      [areas |-> {"energy", "water"}, top |-> "water"] }

BonusAttendee(id, role, role_needed, lane, climate) ==
    [id |-> id, role |-> role, role_needed |-> role_needed, lane |-> lane,
     climate_areas |-> climate.areas, top_climate_area |-> climate.top,
     arrangement |-> "remote-open", location |-> SF, source |-> "application"]

\* The scored pair is AllIds[1], AllIds[2]; AllIds[3] and AllIds[4] are the
\* people they have signalled interest in.
LikedX == AllIds[3]
LikedY == AllIds[4]

\* Scores of the pair's members with the liked people: one above the
\* threshold of 70, one exactly 70, one well above.
NeighbourMatrix ==
    [key \in { make_pair_key(AllIds[2], LikedX), make_pair_key(AllIds[1], LikedX),
               make_pair_key(AllIds[2], LikedY) } |->
        [score |-> IF key = make_pair_key(AllIds[2], LikedX) THEN 71
                   ELSE IF key = make_pair_key(AllIds[1], LikedX) THEN 70
                   ELSE 80]]

WithEntry(matrix, key, n) ==
    [k \in DOMAIN matrix \cup {key} |-> IF k = key THEN [score |-> n] ELSE matrix[k]]

BonusMatrices ==
    { EmptyMatrix,
      NeighbourMatrix,
      WithEntry(NeighbourMatrix, ScoredKey, 0),
      WithEntry(NeighbourMatrix, ScoredKey, 50) }

\* get_all_signals_as_map appends one id for each round's signal, so an id
\* signalled in two rounds is in the list twice.
BonusSignals ==
    { NoSignals,
      Signals([id \in {} |-> <<>>]),
      Signals([id \in {AllIds[1]} |-> <<LikedX>>]),
      Signals([id \in {AllIds[1]} |-> <<LikedX, LikedX>>]),
      Signals([id \in {AllIds[1], AllIds[2]} |->
                 IF id = AllIds[1] THEN <<LikedX, LikedY>> ELSE <<LikedX, AllIds[1]>>]) }

InitBonus ==
    /\ \E role_a \in Roles, needed_a \in Roles, role_b \in Roles, needed_b \in Roles :
       \E lane_a \in Lanes, lane_b \in Lanes :
       \E climate_a \in ClimateProfiles, climate_b \in ClimateProfiles :
          roster = << BonusAttendee(AllIds[1], role_a, needed_a, lane_a, climate_a),
                      BonusAttendee(AllIds[2], role_b, needed_b, lane_b, climate_b) >>
    /\ active_pool = <<>>
    /\ compatibility_matrix \in BonusMatrices
    /\ mutual_signals \in BonusSignals
    /\ pairing_history \in { {}, {ScoredKey} }
    /\ pit_stop_counts = EmptyCounts
    /\ rounds_remaining = 0
    /\ pc = "idle"
    /\ result = NoRound
    /\ rounds_log = <<>>
    /\ pool_changes = 0
    /\ score = NegInf
    /\ chosen = NoneId
    /\ pair_keys = <<>>
    /\ NoEvent

SpecBonus == InitBonus /\ [][NextScore]_vars

\* ------------------------------------------------------------------------
\* make_pair_key on its own: four ids drawn from short strings, the key of
\* the first two in both orders and the key of the other two
\* ------------------------------------------------------------------------

\* The strings of one or two characters over "1", ":" and "a".
KeyChars == {49, Colon, 97}
KeyIds == { <<c>> : c \in KeyChars } \cup { <<c, d>> : c \in KeyChars, d \in KeyChars }

InitKey ==
    /\ \E id_a \in KeyIds, id_b \in KeyIds, id_c \in KeyIds, id_d \in KeyIds :
          roster = << PitAttendee(id_a, "application"), PitAttendee(id_b, "application"),
                      PitAttendee(id_c, "application"), PitAttendee(id_d, "application") >>
    /\ active_pool = <<>>
    /\ compatibility_matrix = EmptyMatrix
    /\ mutual_signals = NoSignalsGiven
    /\ pairing_history = {}
    /\ pit_stop_counts = EmptyCounts
    /\ rounds_remaining = 0
    /\ pc = "idle"
    /\ result = NoRound
    /\ rounds_log = <<>>
    /\ pool_changes = 0
    /\ score = NegInf
    /\ chosen = NoneId
    /\ pair_keys = <<>>
    /\ NoEvent

\* The calls make_pair_key(a, b), make_pair_key(b, a) and make_pair_key(c, d).
MakePairKeys ==
    /\ pc = "idle"
    /\ pair_keys' = << make_pair_key(roster[1].id, roster[2].id),
                       make_pair_key(roster[2].id, roster[1].id),
                       make_pair_key(roster[3].id, roster[4].id) >>
    /\ pc' = "keyed"
    /\ UNCHANGED <<inputs, result, rounds_log, pool_changes, score, chosen, event_vars>>

NextKey == MakePairKeys

SpecKey == InitKey /\ [][NextKey]_vars

\* ------------------------------------------------------------------------
\* app/state.py and the routes of app/routes: the event in Redis
\* ------------------------------------------------------------------------

\* settings.round_duration_minutes
round_duration_minutes == 8

\* The clock counts ticks; timestamps carry fractions of a second, while
\* timer_remaining is a whole number of seconds.
TicksPerSecond == 2
RoundTicks == round_duration_minutes * 60 * TicksPerSecond

\* int(x) for a number of ticks x: the whole seconds, rounded towards zero.
whole_seconds(ticks) ==
    IF ticks >= 0 THEN ticks \div TicksPerSecond ELSE 0 - ((0 - ticks) \div TicksPerSecond)

\* int(x) that rounds to the next whole second above.
whole_seconds_up(ticks) ==
    IF ticks >= 0 THEN (ticks + TicksPerSecond - 1) \div TicksPerSecond
    ELSE 0 - ((0 - ticks) \div TicksPerSecond)

\* RoundResult(round_number, pairings, pit_stop)
RoundResult(round_number, pairings, pit_stop_id) ==
    [round_number |-> round_number, pairings |-> pairings, pit_stop |-> pit_stop_id]

\* The answer to a request: its status code and the round and state of its
\* body.  serial tells one request's answer from the next one's.
Answer(op, status, round, st) ==
    [serial |-> 1 - response.serial, op |-> op, status |-> status, round |-> round,
     state |-> st, mutual |-> FALSE]

\* advance_round lines 161-165: the current round's pairings go into the history.
history_after_recording(history, current) ==
    IF current = None THEN history ELSE FoldHistory(history, current[1].pairings)

\* The to_ids a sender has signalled in rounds 1..rnd, in round order.
RECURSIVE signal_list(_, _, _)
signal_list(from_id, rnd, stored) ==
    IF rnd = 0 THEN <<>>
    ELSE signal_list(from_id, rnd - 1, stored)
         \o (IF rnd \in DOMAIN stored /\ from_id \in DOMAIN stored[rnd]
             THEN <<stored[rnd][from_id]>> ELSE <<>>)

\* get_all_signals_as_map: {from_id: [to_id, ...]} over rounds 1..round_number.
get_all_signals_as_map(round_number, stored) ==
    LET senders == UNION { DOMAIN stored[r] : r \in DOMAIN stored \cap 1..round_number }
    IN [from_id \in senders |-> signal_list(from_id, round_number, stored)]

\* mutual_signals=signals if signals else None
signals_for_solver(round_number, stored) ==
    LET all == get_all_signals_as_map(round_number, stored)
    IN IF DOMAIN all = {} THEN NoSignals ELSE Signals(all)

\* advance_round without the call of increment_pit_stop.
increment_pit_stop_lost(counts, pit_stop_id) == counts

\* advance_round lines 185-186: hincrby pit_stops pit_stop_id 1 when the
\* solver returned a pit stop.
increment_pit_stop(counts, pit_stop_id) ==
    IF pit_stop_id # NoneId
    THEN [id \in DOMAIN counts \cup {pit_stop_id} |->
            IF id = pit_stop_id THEN CountOf(counts, id) + 1 ELSE counts[id]]
    ELSE counts

\* advance_round that leaves rounds_remaining as it was.
started_no_decrement(st, clock) ==
    [st EXCEPT !.round_number = @ + 1,
               !.status = "round-active",
               !.timer_end = Some(clock + RoundTicks),
               !.timer_paused = FALSE,
               !.timer_remaining = None]

\* advance_round lines 195-205: the state of the round that starts.
started(st, clock) ==
    [st EXCEPT !.round_number = @ + 1,
               !.rounds_remaining = @ - 1,
               !.status = "round-active",
               !.timer_end = Some(clock + RoundTicks),
               !.timer_paused = FALSE,
               !.timer_remaining = None]

\* set_current_pairings also stores the result under its round number.
stored_by_round(by_round, round) ==
    [n \in DOMAIN by_round \cup {round.round_number} |->
        IF n = round.round_number THEN round ELSE by_round[n]]

\* pause_timer that stores the remaining time rounded up.
pause_timer_round_up(st, clock) ==
    IF st.timer_end # None /\ ~st.timer_paused
    THEN LET remaining == whole_seconds_up(st.timer_end[1] - clock)
         IN [st EXCEPT !.timer_paused = TRUE,
                       !.timer_remaining = Some(IF remaining > 0 THEN remaining ELSE 0),
                       !.timer_end = None]
    ELSE st

\* pause_timer
pause_timer(st, clock) ==
    IF st.timer_end # None /\ ~st.timer_paused
    THEN LET remaining == whole_seconds(st.timer_end[1] - clock)
         IN [st EXCEPT !.timer_paused = TRUE,
                       !.timer_remaining = Some(IF remaining > 0 THEN remaining ELSE 0),
                       !.timer_end = None]
    ELSE st

\* resume_timer
resume_timer(st, clock) ==
    IF st.timer_paused /\ st.timer_remaining # None
    THEN [st EXCEPT !.timer_end = Some(clock + st.timer_remaining[1] * TicksPerSecond),
                    !.timer_paused = FALSE,
                    !.timer_remaining = None]
    ELSE st

\* The table (1-based position in the list) where the loop of swap_pairing
\* last finds the attendee; 0 when it finds them nowhere (idx = None).
seat_index(pairings, attendee_id) ==
    LET found == { i \in 1..Len(pairings) :
                     \/ pairings[i].attendee_a = attendee_id
                     \/ pairings[i].attendee_b = attendee_id }
    IN IF found = {} THEN 0 ELSE MaxOf(found)

\* min and max of two strings
StrMin(s, t) == IF StrLess(t, s) THEN t ELSE s
StrMax(s, t) == IF StrLess(t, s) THEN s ELSE t

\* A table after a manual swap: the pair in sorted order, the score 0.
swapped_table(table_number, id, partner) ==
    [table_number |-> table_number, attendee_a |-> StrMin(id, partner),
     attendee_b |-> StrMax(id, partner), composite_score |-> Finite(0)]

\* swap_pairing that seats each attendee back with their own partner.
swap_pairing_own_partner(round, attendee_id_1, attendee_id_2) ==
    LET idx_1 == seat_index(round.pairings, attendee_id_1)
        idx_2 == seat_index(round.pairings, attendee_id_2)
    IN IF idx_1 = 0 \/ idx_2 = 0 \/ idx_1 = idx_2 THEN round
       ELSE LET p1 == round.pairings[idx_1]
                p2 == round.pairings[idx_2]
            IN [round EXCEPT !.pairings =
                   [i \in 1..Len(round.pairings) |->
                      IF i = idx_1
                      THEN swapped_table(p1.table_number, p1.attendee_a, p1.attendee_b)
                      ELSE IF i = idx_2
                      THEN swapped_table(p2.table_number, p2.attendee_a, p2.attendee_b)
                      ELSE round.pairings[i]]]

\* swap_pairing on a stored round (lines 254-287)
swap_pairing(round, attendee_id_1, attendee_id_2) ==
    LET idx_1 == seat_index(round.pairings, attendee_id_1)
        idx_2 == seat_index(round.pairings, attendee_id_2)
    IN IF idx_1 = 0 \/ idx_2 = 0 \/ idx_1 = idx_2 THEN round
       ELSE LET p1 == round.pairings[idx_1]
                p2 == round.pairings[idx_2]
                partner_1 == IF p1.attendee_a = attendee_id_1
                             THEN p1.attendee_b ELSE p1.attendee_a
                partner_2 == IF p2.attendee_a = attendee_id_2
                             THEN p2.attendee_b ELSE p2.attendee_a
            IN [round EXCEPT !.pairings =
                   [i \in 1..Len(round.pairings) |->
                      IF i = idx_1
                      THEN swapped_table(p1.table_number, attendee_id_2, partner_1)
                      ELSE IF i = idx_2
                      THEN swapped_table(p2.table_number, attendee_id_1, partner_2)
                      ELSE round.pairings[i]]]

\* get_active_pool for a set of active ids: the attendees on record.
pool_of(ids) == SelectSeq(roster, LAMBDA a : a.id \in ids)

\* ------------------------------------------------------------------------
\* The event under the administrator's requests, one request at a time
\* ------------------------------------------------------------------------

\* settings.total_rounds runs from 0 to MaxTotalRounds.
MaxTotalRounds == 2

\* An id that no attendee has.
UnknownId == <<122>>
\* The ids the swap requests name, and the ids the check-in and check-out
\* requests name.
SwapIds == { AllIds[1], AllIds[3], UnknownId }
DoorIds == { AllIds[4], AllIds[5], UnknownId }

\* Signals stored for round 1 before the rounds start.
EarlySignals ==
    [r \in {1} |-> [from_id \in {AllIds[1], AllIds[2]} |->
                      IF from_id = AllIds[1] THEN AllIds[3] ELSE AllIds[1]]]

EventScenarios ==
    { Scenario(UniformRoster, SkewedMatrix, <<>>, NoHistory),
      Scenario(MixedRoster, SumMatrix, EarlySignals, NoHistory) }

\* The attendees are seeded and a first part of them checked in; nothing
\* else is stored.
InitEvent ==
    /\ \E sc \in EventScenarios :
          /\ roster = sc.roster
          /\ compatibility_matrix = sc.matrix
          /\ signals = sc.signals
          /\ pairing_history = sc.history
    /\ \E n \in 0..Len(AllIds) : active_pool = [i \in 1..n |-> roster[i]]
    /\ \E total_rounds \in 0..MaxTotalRounds : state = EventState(total_rounds)
    /\ mutual_signals = NoSignalsGiven
    /\ pit_stop_counts = EmptyCounts
    /\ rounds_remaining = 0
    /\ pc = "idle"
    /\ result = NoRound
    /\ rounds_log = <<>>
    /\ pool_changes = 0
    /\ score = NegInf
    /\ chosen = NoneId
    /\ pair_keys = <<>>
    /\ current_pairings = None
    /\ round_pairings = <<>>
    /\ mutual_matches = {}
    /\ now = 0
    /\ response = NoResponse
    /\ requests = NoRequests

\* POST /api/admin/advance-round (admin_api.advance_round with
\* EventStateManager.advance_round), run from start to end.
AdvanceRoundRequest ==
    /\ IF state.rounds_remaining <= 0
       THEN /\ response' = Answer("advance-round", 400, None, None)
            /\ UNCHANGED <<state, current_pairings, round_pairings, pairing_history,
                           pit_stop_counts>>
       ELSE LET history == history_after_recording(pairing_history, current_pairings)
            IN \E solved \in solve_round(active_pool, compatibility_matrix, history,
                                         state.rounds_remaining, pit_stop_counts,
                                         signals_for_solver(state.round_number, signals)) :
                  LET round == RoundResult(state.round_number + 1, solved.pairings,
                                           solved.pit_stop)
                  IN /\ pairing_history' = history
                     /\ pit_stop_counts' = increment_pit_stop(pit_stop_counts,
                                                              solved.pit_stop)
                     /\ state' = started(state, now)
                     /\ current_pairings' = Some(round)
                     /\ round_pairings' = stored_by_round(round_pairings, round)
                     /\ response' = Answer("advance-round", 200, Some(round),
                                           Some(started(state, now)))
    /\ UNCHANGED <<roster, active_pool, compatibility_matrix, mutual_signals,
                   rounds_remaining, pc, result, rounds_log, pool_changes, score, chosen,
                   pair_keys, signals, mutual_matches, now, requests>>

\* POST /api/admin/swap (admin_api.swap_override with swap_pairing).
Swap(attendee_id_1, attendee_id_2) ==
    /\ IF current_pairings = None
       THEN /\ response' = Answer("swap", 400, None, None)
            /\ UNCHANGED <<current_pairings, round_pairings>>
       ELSE LET round == swap_pairing(current_pairings[1], attendee_id_1, attendee_id_2)
            IN /\ current_pairings' = Some(round)
               /\ round_pairings' = stored_by_round(round_pairings, round)
               /\ response' = Answer("swap", 200, Some(round), None)
    /\ UNCHANGED <<roster, active_pool, compatibility_matrix, mutual_signals,
                   pairing_history, pit_stop_counts, rounds_remaining, pc, result,
                   rounds_log, pool_changes, score, chosen, pair_keys, state, signals,
                   mutual_matches, now, requests>>

\* POST /api/admin/check-in with action "check-in" (check_in); a run has one
\* request at the door, at any point of the event.
CheckInRequest ==
    /\ pool_changes = 0
    /\ \E attendee_id \in DoorIds :
          IF attendee_id \in PoolIds(roster)
          THEN /\ active_pool' = pool_of(PoolIds(active_pool) \cup {attendee_id})
               /\ response' = Answer("check-in", 200, None, None)
          ELSE /\ response' = Answer("check-in", 404, None, None)
               /\ UNCHANGED active_pool
    /\ pool_changes' = pool_changes + 1
    /\ UNCHANGED <<roster, compatibility_matrix, mutual_signals, pairing_history,
                   pit_stop_counts, rounds_remaining, pc, result, rounds_log, score,
                   chosen, pair_keys, state, current_pairings, round_pairings, signals,
                   mutual_matches, now, requests>>

\* POST /api/admin/check-in with action "check-out" (check_out); a run has
\* one request at the door, at any point of the event.
CheckOutRequest ==
    /\ pool_changes = 0
    /\ \E attendee_id \in DoorIds :
          IF attendee_id \in PoolIds(roster)
          THEN /\ active_pool' = pool_of(PoolIds(active_pool) \ {attendee_id})
               /\ response' = Answer("check-out", 200, None, None)
          ELSE /\ response' = Answer("check-out", 404, None, None)
               /\ UNCHANGED active_pool
    /\ pool_changes' = pool_changes + 1
    /\ UNCHANGED <<roster, compatibility_matrix, mutual_signals, pairing_history,
                   pit_stop_counts, rounds_remaining, pc, result, rounds_log, score,
                   chosen, pair_keys, state, current_pairings, round_pairings, signals,
                   mutual_matches, now, requests>>

SwapRequest == \E attendee_id_1 \in SwapIds, attendee_id_2 \in SwapIds :
                  Swap(attendee_id_1, attendee_id_2)

NextEvent == AdvanceRoundRequest \/ SwapRequest \/ CheckInRequest \/ CheckOutRequest

SpecEvent == InitEvent /\ [][NextEvent]_vars

\* ------------------------------------------------------------------------
\* The round timer: rounds are started, paused and resumed while the clock
\* runs
\* ------------------------------------------------------------------------

\* The clock moves by a tick, a second or a whole round at a time; it is
\* followed for MaxTicks ticks from time 0 and for MaxTicks ticks from the
\* length of one round.
MaxTicks == 3
TickSteps == { 1, TicksPerSecond, RoundTicks }

\* Three attendees are checked in: every round seats one pair.
InitTimer ==
    /\ roster = UniformRoster
    /\ compatibility_matrix = SkewedMatrix
    /\ signals = <<>>
    /\ pairing_history = NoHistory
    /\ active_pool = [i \in 1..3 |-> roster[i]]
    /\ \E total_rounds \in 0..MaxTotalRounds : state = EventState(total_rounds)
    /\ mutual_signals = NoSignalsGiven
    /\ pit_stop_counts = EmptyCounts
    /\ rounds_remaining = 0
    /\ pc = "idle"
    /\ result = NoRound
    /\ rounds_log = <<>>
    /\ pool_changes = 0
    /\ score = NegInf
    /\ chosen = NoneId
    /\ pair_keys = <<>>
    /\ current_pairings = None
    /\ round_pairings = <<>>
    /\ mutual_matches = {}
    /\ now = 0
    /\ response = NoResponse
    /\ requests = NoRequests

\* Time passes.
Tick ==
    /\ \E d \in TickSteps :
          /\ now + d <= RoundTicks + MaxTicks
          /\ (now + d) % RoundTicks <= MaxTicks
          /\ now' = now + d
    /\ UNCHANGED <<roster, active_pool, compatibility_matrix, mutual_signals,
                   pairing_history, pit_stop_counts, rounds_remaining, pc, result,
                   rounds_log, pool_changes, score, chosen, pair_keys, state,
                   current_pairings, round_pairings, signals, mutual_matches, response,
                   requests>>

\* POST /api/admin/pause with action "pause".
PauseRequest ==
    /\ state' = pause_timer(state, now)
    /\ response' = Answer("pause", 200, None, Some(pause_timer(state, now)))
    /\ UNCHANGED <<roster, active_pool, compatibility_matrix, mutual_signals,
                   pairing_history, pit_stop_counts, rounds_remaining, pc, result,
                   rounds_log, pool_changes, score, chosen, pair_keys, current_pairings,
                   round_pairings, signals, mutual_matches, now, requests>>

\* POST /api/admin/pause with action "resume".
ResumeRequest ==
    /\ state' = resume_timer(state, now)
    /\ response' = Answer("resume", 200, None, Some(resume_timer(state, now)))
    /\ UNCHANGED <<roster, active_pool, compatibility_matrix, mutual_signals,
                   pairing_history, pit_stop_counts, rounds_remaining, pc, result,
                   rounds_log, pool_changes, score, chosen, pair_keys, current_pairings,
                   round_pairings, signals, mutual_matches, now, requests>>

NextTimer == AdvanceRoundRequest \/ PauseRequest \/ ResumeRequest \/ Tick

SpecTimer == InitTimer /\ [][NextTimer]_vars

\* ------------------------------------------------------------------------
\* Follow-up signals: POST /api/signal, one request at a time
\* ------------------------------------------------------------------------

\* hset signals:{round_number} from_id to_id
signal_stored(stored, round_number, from_id, to_id) ==
    [r \in DOMAIN stored \cup {round_number} |->
        IF r = round_number
        THEN LET before == IF r \in DOMAIN stored THEN stored[r] ELSE <<>>
             IN [f \in DOMAIN before \cup {from_id} |->
                    IF f = from_id THEN to_id ELSE before[f]]
        ELSE stored[r]]

\* The reverse signal looked up in every round's hash instead of this round's.
reverse_signal_any_round(stored, round_number, to_id) ==
    IF \E r \in DOMAIN stored : to_id \in DOMAIN stored[r]
    THEN LET r == CHOOSE q \in DOMAIN stored : to_id \in DOMAIN stored[q]
         IN Some(stored[r][to_id])
    ELSE None

\* hget signals:{round_number} to_id
reverse_signal(stored, round_number, to_id) ==
    IF round_number \in DOMAIN stored /\ to_id \in DOMAIN stored[round_number]
    THEN Some(stored[round_number][to_id])
    ELSE None

\* Signals are sent for two rounds, between three attendees.
SignalRounds == {1, 2}
SignalIds == { AllIds[1], AllIds[2], AllIds[3] }

InitSignal ==
    /\ roster = UniformRoster
    /\ compatibility_matrix = UniformMatrix
    /\ signals = <<>>
    /\ pairing_history = NoHistory
    /\ active_pool = [i \in 1..3 |-> roster[i]]
    /\ state = EventState(Cardinality(SignalRounds))
    /\ mutual_signals = NoSignalsGiven
    /\ pit_stop_counts = EmptyCounts
    /\ rounds_remaining = 0
    /\ pc = "idle"
    /\ result = NoRound
    /\ rounds_log = <<>>
    /\ pool_changes = 0
    /\ score = NegInf
    /\ chosen = NoneId
    /\ pair_keys = <<>>
    /\ current_pairings = None
    /\ round_pairings = <<>>
    /\ mutual_matches = {}
    /\ now = 0
    /\ response = NoResponse
    /\ requests = NoRequests

\* record_signal(round_number, from_id, to_id) behind POST /api/signal.
RecordSignal(round_number, from_id, to_id) ==
    /\ signals' = signal_stored(signals, round_number, from_id, to_id)
    /\ LET reverse == reverse_signal(signals', round_number, to_id)
       IN IF reverse = Some(from_id)
          THEN /\ mutual_matches' = mutual_matches \cup { make_pair_key(from_id, to_id) }
               /\ response' = [Answer("signal", 200, None, None) EXCEPT !.mutual = TRUE]
          ELSE /\ mutual_matches' = mutual_matches
               /\ response' = Answer("signal", 200, None, None)
    /\ UNCHANGED <<roster, active_pool, compatibility_matrix, mutual_signals,
                   pairing_history, pit_stop_counts, rounds_remaining, pc, result,
                   rounds_log, pool_changes, score, chosen, pair_keys, state,
                   current_pairings, round_pairings, now, requests>>

\* A signal from any of the attendees to any other, for any of the rounds.
SignalRequest ==
    \E round_number \in SignalRounds :
    \E from_id \in SignalIds, to_id \in SignalIds :
       /\ from_id # to_id
       /\ RecordSignal(round_number, from_id, to_id)

NextSignal == SignalRequest

SpecSignal == InitSignal /\ [][NextSignal]_vars

\* ------------------------------------------------------------------------
\* Two advance-round requests in flight at once.  The handlers are
\* coroutines on one event loop: a handler runs alone from one await of a
\* Redis call to the next, and at an await the other handler may run.
\* ------------------------------------------------------------------------

Requesters == {1, 2}

\* A request that has arrived and not yet run: its place in the handler, the
\* EventState object it holds and the round its solve returned.
NewRequest == [pc |-> "new", st |-> None, solved |-> NoRound]

InitRace ==
    /\ roster = UniformRoster
    /\ compatibility_matrix \in { SkewedMatrix, EmptyMatrix }
    /\ signals = <<>>
    /\ pairing_history = NoHistory
    /\ \E n \in 3..Len(AllIds) : active_pool = [i \in 1..n |-> roster[i]]
    /\ \E total_rounds \in 0..MaxTotalRounds : state = EventState(total_rounds)
    /\ mutual_signals = NoSignalsGiven
    /\ pit_stop_counts = EmptyCounts
    /\ rounds_remaining = 0
    /\ pc = "idle"
    /\ result = NoRound
    /\ rounds_log = <<>>
    /\ pool_changes = 0
    /\ score = NegInf
    /\ chosen = NoneId
    /\ pair_keys = <<>>
    /\ current_pairings = None
    /\ round_pairings = <<>>
    /\ mutual_matches = {}
    /\ now = 0
    /\ response = NoResponse
    /\ requests = [q \in Requesters |-> NewRequest]

\* admin_api.advance_round lines 87-90: the route reads the state and
\* rejects the request when no round remains.
Admit(q) ==
    /\ requests[q].pc = "new"
    /\ IF state.rounds_remaining <= 0
       THEN /\ requests' = [requests EXCEPT ![q].pc = "rejected"]
            /\ response' = Answer("advance-round", 400, None, None)
       ELSE /\ requests' = [requests EXCEPT ![q].pc = "admitted"]
            /\ UNCHANGED response
    /\ UNCHANGED <<roster, active_pool, compatibility_matrix, mutual_signals,
                   pairing_history, pit_stop_counts, rounds_remaining, pc, result,
                   rounds_log, pool_changes, score, chosen, pair_keys, state,
                   current_pairings, round_pairings, signals, mutual_matches, now>>

\* EventStateManager.advance_round line 158: the manager reads the state
\* into its own object.
ReadState(q) ==
    /\ requests[q].pc = "admitted"
    /\ requests' = [requests EXCEPT ![q].pc = "read", ![q].st = Some(state)]
    /\ UNCHANGED <<roster, active_pool, compatibility_matrix, mutual_signals,
                   pairing_history, pit_stop_counts, rounds_remaining, pc, result,
                   rounds_log, pool_changes, score, chosen, pair_keys, state,
                   current_pairings, round_pairings, signals, mutual_matches, now,
                   response>>

\* Lines 161-165: the current pairings are read and added to the history.
RecordCurrent(q) ==
    /\ requests[q].pc = "read"
    /\ pairing_history' = history_after_recording(pairing_history, current_pairings)
    /\ requests' = [requests EXCEPT ![q].pc = "recorded"]
    /\ UNCHANGED <<roster, active_pool, compatibility_matrix, mutual_signals,
                   pit_stop_counts, rounds_remaining, pc, result, rounds_log,
                   pool_changes, score, chosen, pair_keys, state, current_pairings,
                   round_pairings, signals, mutual_matches, now, response>>

\* Lines 168-182: the pool, matrix, history, counts and signals are loaded
\* (get_all_signals_as_map reads the stored state for its round number) and
\* solve_round runs on them with the rounds_remaining of the handler's own
\* state object.
LoadAndSolve(q) ==
    /\ requests[q].pc = "recorded"
    /\ \E solved \in solve_round(active_pool, compatibility_matrix, pairing_history,
                                 requests[q].st[1].rounds_remaining, pit_stop_counts,
                                 signals_for_solver(state.round_number, signals)) :
          requests' = [requests EXCEPT ![q].pc = "solved", ![q].solved = solved]
    /\ UNCHANGED <<roster, active_pool, compatibility_matrix, mutual_signals,
                   pairing_history, pit_stop_counts, rounds_remaining, pc, result,
                   rounds_log, pool_changes, score, chosen, pair_keys, state,
                   current_pairings, round_pairings, signals, mutual_matches, now,
                   response>>

\* Lines 185-205: the pit stop is counted, and the handler's state object
\* moves to the next round.
CountPitStop(q) ==
    /\ requests[q].pc = "solved"
    /\ pit_stop_counts' = increment_pit_stop(pit_stop_counts, requests[q].solved.pit_stop)
    /\ requests' = [requests EXCEPT ![q].pc = "counted",
                                    ![q].st = Some(started(requests[q].st[1], now))]
    /\ UNCHANGED <<roster, active_pool, compatibility_matrix, mutual_signals,
                   pairing_history, rounds_remaining, pc, result, rounds_log,
                   pool_changes, score, chosen, pair_keys, state, current_pairings,
                   round_pairings, signals, mutual_matches, now, response>>

\* Line 215: set_state(state)
SetState(q) ==
    /\ requests[q].pc = "counted"
    /\ state' = requests[q].st[1]
    /\ requests' = [requests EXCEPT ![q].pc = "stored"]
    /\ UNCHANGED <<roster, active_pool, compatibility_matrix, mutual_signals,
                   pairing_history, pit_stop_counts, rounds_remaining, pc, result,
                   rounds_log, pool_changes, score, chosen, pair_keys, current_pairings,
                   round_pairings, signals, mutual_matches, now, response>>

\* Line 216 and admin_api.advance_round lines 93-132: set_current_pairings,
\* then the route reads the state again and answers.
SetCurrentPairings(q) ==
    /\ requests[q].pc = "stored"
    /\ LET round == RoundResult(requests[q].st[1].round_number,
                                requests[q].solved.pairings, requests[q].solved.pit_stop)
       IN /\ current_pairings' = Some(round)
          /\ round_pairings' = stored_by_round(round_pairings, round)
          /\ response' = Answer("advance-round", 200, Some(round), Some(state))
    /\ requests' = [requests EXCEPT ![q].pc = "done"]
    /\ UNCHANGED <<roster, active_pool, compatibility_matrix, mutual_signals,
                   pairing_history, pit_stop_counts, rounds_remaining, pc, result,
                   rounds_log, pool_changes, score, chosen, pair_keys, state, signals,
                   mutual_matches, now>>

NextRace ==
    \E q \in Requesters :
       \/ Admit(q)
       \/ ReadState(q)
       \/ RecordCurrent(q)
       \/ LoadAndSolve(q)
       \/ CountPitStop(q)
       \/ SetState(q)
       \/ SetCurrentPairings(q)

SpecRace == InitRace /\ [][NextRace]_vars

\* ------------------------------------------------------------------------
\* solve_round on matrices with scores of both signs, with and without the
\* lookahead discount
\* ------------------------------------------------------------------------

\* Scores from -40 to 60: with the bonuses some pairs score below 0.
SignedMatrix ==
    [key \in { KeyOf(p) : p \in IndexPairs } |->
        [score |-> SkewedScore(PairOfKey(key)) - 40]]

InitComposite ==
    /\ roster = UniformRoster
    /\ compatibility_matrix \in { SignedMatrix, SumMatrix }
    /\ mutual_signals \in { NoSignalsGiven, SomeSignals }
    /\ pairing_history \in { NoHistory, SomeHistory }
    /\ \E n \in 0..Len(AllIds) : active_pool = [i \in 1..n |-> roster[i]]
    /\ pit_stop_counts = EmptyCounts
    /\ rounds_remaining \in { 1, DiscountAbove, DiscountAbove + 1 }
    /\ pc = "idle"
    /\ result = NoRound
    /\ rounds_log = <<>>
    /\ pool_changes = 0
    /\ score = NegInf
    /\ chosen = NoneId
    /\ pair_keys = <<>>
    /\ NoEvent

NextComposite == SolveRound \/ FoldRound

SpecComposite == InitComposite /\ [][NextComposite]_vars

\* ------------------------------------------------------------------------
\* Properties
\* ------------------------------------------------------------------------

\* The two hard constraints, stated on the attendees and the history.
AlreadyMet(a, b, history) ==
    \/ (StrLess(a.id, b.id) /\ (a.id \o <<Colon>> \o b.id) \in history)
    \/ (~StrLess(a.id, b.id) /\ (b.id \o <<Colon>> \o a.id) \in history)

CitiesConflict(a, b) ==
    /\ a.arrangement = "colocated" /\ b.arrangement = "colocated"
    /\ Len(a.location) > 0 /\ Len(b.location) > 0
    /\ Lower(a.location) # Lower(b.location)

Forbidden(a, b, history) == AlreadyMet(a, b, history) \/ CitiesConflict(a, b)

PoolMember(id) == CHOOSE a \in { active_pool[i] : i \in 1..Len(active_pool) } : a.id = id

Seated(pairings) ==
    { pairings[t].attendee_a : t \in 1..Len(pairings) }
    \cup { pairings[t].attendee_b : t \in 1..Len(pairings) }

NoForbiddenPairIn(pool, history) ==
    \A i, j \in 1..Len(pool) : i < j => ~Forbidden(pool[i], pool[j], history)

\* C1: when every round's pairings are folded into the history before the
\* next solve_round call, no pair key is in the output of two different
\* rounds, whatever the pool, the matrix and the number of rounds.
C1_NoRepeat ==
    \A i, j \in DOMAIN rounds_log : i < j => rounds_log[i] \cap rounds_log[j] = {}

\* Two non-empty rounds have been solved and the pool changed in between.
C1_Witness ==
    /\ Len(rounds_log) >= 2
    /\ rounds_log[1] # {} /\ rounds_log[Len(rounds_log)] # {}
    /\ pool_changes > 0

\* C2: no pairing returned by a solve_round call is of a pair the scorer
\* forbids under the call's inputs: its key is not in the history passed in,
\* and the two are not both co-located in different named cities.
C2_NoForbiddenPairing ==
    pc = "solved" =>
        \A t \in 1..Len(result.pairings) :
            LET a == PoolMember(result.pairings[t].attendee_a)
                b == PoolMember(result.pairings[t].attendee_b)
            IN /\ make_pair_key(a.id, b.id) \notin pairing_history
               /\ ~CitiesConflict(a, b)

\* A round was returned from a pool that holds a pair that has met and a pair
\* in conflicting cities.
C2_Witness ==
    /\ pc = "solved"
    /\ Len(result.pairings) >= 1
    /\ \E i, j \in 1..Len(active_pool) :
          i < j /\ AlreadyMet(active_pool[i], active_pool[j], pairing_history)
    /\ \E i, j \in 1..Len(active_pool) :
          i < j /\ CitiesConflict(active_pool[i], active_pool[j])

\* C3: match_score returns -inf exactly when the pair key is in the history
\* or both are co-located with non-empty locations that differ
\* case-insensitively; in every other case the score is finite.
C3_ForbiddenExactly ==
    pc = "scored" =>
        (score.neg_inf <=> Forbidden(roster[1], roster[2], pairing_history))

\* Two co-located people whose cities differ in letter case only, who have
\* not met, got a finite score.
C3_Witness ==
    /\ pc = "scored"
    /\ roster[1].arrangement = "colocated" /\ roster[2].arrangement = "colocated"
    /\ roster[1].location = SF /\ roster[2].location = sf
    /\ ~AlreadyMet(roster[1], roster[2], pairing_history)
    /\ ~score.neg_inf

\* C4: for an even pool of N >= 2 without a forbidden pair and with
\* rounds_remaining >= 1, solve_round returns N/2 pairings that cover all N
\* ids exactly once, and no pit stop.
C4_Completeness ==
    (/\ pc = "solved"
     /\ Len(active_pool) >= 2 /\ Len(active_pool) % 2 = 0
     /\ rounds_remaining >= 1
     /\ NoForbiddenPairIn(active_pool, pairing_history))
    => /\ 2 * Len(result.pairings) = Len(active_pool)
       /\ Seated(result.pairings) = PoolIds(active_pool)
       /\ result.pit_stop = NoneId

\* A pool of four without a forbidden pair was solved.
C4_Witness ==
    /\ pc = "solved"
    /\ Len(active_pool) = 4
    /\ rounds_remaining >= 1
    /\ NoForbiddenPairIn(active_pool, pairing_history)
    /\ Len(result.pairings) = 2

\* The pool of the call without the pit stop of the result.
WorkingPool == WithoutId(active_pool, result.pit_stop)

\* C5 as stated: every pool of odd size N gets (N-1)/2 pairings and one
\* pit-stop id, which is in none of the pairings.
C5_OddPoolAsStated ==
    (pc = "solved" /\ Len(active_pool) % 2 = 1)
    => /\ 2 * Len(result.pairings) = Len(active_pool) - 1
       /\ result.pit_stop # NoneId
       /\ result.pit_stop \notin Seated(result.pairings)

\* C5, amended: every pool of odd size N >= 3, solved with rounds_remaining
\* >= 1, gets exactly one pit-stop id, a pool member that is in none of the
\* round's pairings, and at most (N-1)/2 pairings: exactly (N-1)/2 when no
\* two of the other N-1 members are a forbidden pair.
C5_OddPoolPitStop ==
    (/\ pc = "solved"
     /\ Len(active_pool) % 2 = 1 /\ Len(active_pool) >= 3
     /\ rounds_remaining >= 1)
    => /\ result.pit_stop # NoneId
       /\ result.pit_stop \in PoolIds(active_pool)
       /\ result.pit_stop \notin Seated(result.pairings)
       /\ 2 * Len(result.pairings) <= Len(active_pool) - 1
       /\ NoForbiddenPairIn(WorkingPool, pairing_history)
            => 2 * Len(result.pairings) = Len(active_pool) - 1

\* A pool of five was solved into two pairings and a pit stop.
C5_Witness ==
    /\ pc = "solved"
    /\ Len(active_pool) = 5
    /\ rounds_remaining >= 1
    /\ result.pit_stop # NoneId
    /\ Len(result.pairings) = 2

\* C6: with a fixed odd pool, counts that start empty and one added for each
\* returned pit stop, the pit-stop counts of those who have sat out differ by
\* at most 1, and nobody has sat out twice while a pool member has not sat
\* out at all.
C6_PitStopFairness ==
    (pool_changes = 0 /\ Len(active_pool) % 2 = 1)
    => LET ids == PoolIds(active_pool)
           sat_out == { id \in ids : CountOf(pit_stop_counts, id) >= 1 }
       IN /\ \A x \in DOMAIN pit_stop_counts : \A y \in sat_out :
                pit_stop_counts[x] - CountOf(pit_stop_counts, y) <= 1
          /\ (\E x \in ids : CountOf(pit_stop_counts, x) >= 2) => sat_out = ids

\* In a fixed pool of three, somebody has sat out a second time.
C6_Witness ==
    /\ pool_changes = 0
    /\ Len(active_pool) = 3
    /\ \E x \in PoolIds(active_pool) : CountOf(pit_stop_counts, x) = 2

\* The key of _choose_pit_stop, compared field by field.
PitKeyBefore(a, b) ==
    LET ca == CountOf(pit_stop_counts, a.id)
        cb == CountOf(pit_stop_counts, b.id)
        wa == (a.source = "walk-up")
        wb == (b.source = "walk-up")
    IN \/ ca < cb
       \/ ca = cb /\ ~wa /\ wb
       \/ ca = cb /\ wa = wb /\ StrLess(a.id, b.id)

Reorderings(pool) ==
    { [i \in 1..Len(pool) |-> pool[f[i]]] :
      f \in { g \in [1..Len(pool) -> 1..Len(pool)] :
                \A i, j \in 1..Len(pool) : i # j => g[i] # g[j] } }

C8_ValidMatching ==
    pc = "solved" =>
        /\ \A t \in 1..Len(result.pairings) :
              /\ result.pairings[t].attendee_a # result.pairings[t].attendee_b
              /\ result.pairings[t].attendee_a \in PoolIds(active_pool)
              /\ result.pairings[t].attendee_b \in PoolIds(active_pool)
        /\ \A t, u \in 1..Len(result.pairings) :
              t # u => {result.pairings[t].attendee_a, result.pairings[t].attendee_b}
                       \cap {result.pairings[u].attendee_a, result.pairings[u].attendee_b} = {}
        /\ result.pit_stop # NoneId
             => /\ result.pit_stop \in PoolIds(active_pool)
                /\ result.pit_stop \notin Seated(result.pairings)

\* A round of two pairings and a pit stop was returned.
C8_Witness ==
    /\ pc = "solved"
    /\ Len(result.pairings) = 2
    /\ result.pit_stop # NoneId
    /\ pool_changes > 0

\* The graph the claim speaks of: the non-forbidden pairs of the working
\* pool, each with the weight the round gives it.
AllowedEdges ==
    { [u |-> WorkingPool[p[1]].id, v |-> WorkingPool[p[2]].id,
       weight |-> edge_weight(match_score(WorkingPool[p[1]], WorkingPool[p[2]],
                                          compatibility_matrix, pairing_history,
                                          mutual_signals,
                                          extract_scores(compatibility_matrix)).num,
                              rounds_remaining)] :
      p \in { q \in (1..Len(WorkingPool)) \X (1..Len(WorkingPool)) :
                /\ q[1] < q[2]
                /\ ~Forbidden(WorkingPool[q[1]], WorkingPool[q[2]], pairing_history) } }

AllowedMatchings == MatchingsOf(PoolIds(WorkingPool), AllowedEdges)

ResultEdges ==
    { e \in AllowedEdges :
        \E t \in 1..Len(result.pairings) :
            {e.u, e.v} = {result.pairings[t].attendee_a, result.pairings[t].attendee_b} }

\* C9: the returned pairing is a maximum-cardinality maximum-weight matching
\* of the non-forbidden pairs of the working pool: no matching has more
\* pairs, and no matching with as many pairs has a larger total weight.
C9_MaxCardMaxWeight ==
    (pc = "solved" /\ Len(active_pool) >= 2 /\ rounds_remaining >= 1)
    => /\ Cardinality(ResultEdges) = Len(result.pairings)
       /\ ResultEdges \in AllowedMatchings
       /\ \A o \in AllowedMatchings :
             /\ Cardinality(o) <= Cardinality(ResultEdges)
             /\ Cardinality(o) = Cardinality(ResultEdges)
                  => TotalWeight(o) <= TotalWeight(ResultEdges)

\* A round was returned although a matching of fewer pairs weighs more.
C9_Witness ==
    /\ pc = "solved" /\ Len(active_pool) >= 2 /\ rounds_remaining >= 1
    /\ \E o \in AllowedMatchings :
          /\ Cardinality(o) < Cardinality(ResultEdges)
          /\ TotalWeight(o) > TotalWeight(ResultEdges)

\* The value of a schedule: matched pairs first, then the sum of the composite
\* scores (in units of 1/20, not discounted).
LexLess(x, y) == x[1] < y[1] \/ (x[1] = y[1] /\ x[2] < y[2])
LexMax(values) == CHOOSE v \in values : \A w \in values : ~LexLess(v, w)

EdgeKeys(m) == { make_pair_key(e.u, e.v) : e \in m }

\* The best value of any no-repeat schedule of k rounds over the pool, from
\* a history and pit-stop counts on: each round seats a matching of pairs that
\* are not forbidden and have not been seated before, the pit stop of a round
\* being the selector's pick.
RECURSIVE BestSchedule(_, _, _)
BestSchedule(history, counts, k) ==
    IF k = 0 THEN <<0, 0>>
    ELSE LET odd == Len(active_pool) % 2 = 1
             pit == IF odd THEN choose_pit_stop(active_pool, counts) ELSE NoneId
             pool == IF odd THEN WithoutId(active_pool, pit) ELSE active_pool
             graph == build_graph(pool, compatibility_matrix, history, 0, mutual_signals,
                                  extract_scores(compatibility_matrix))
         IN LexMax({ LET rest == BestSchedule(history \cup EdgeKeys(m),
                                              FoldPitStop(counts, pit), k - 1)
                     IN <<Cardinality(m) + rest[1], TotalWeight(m) + rest[2]>> :
                     m \in MatchingsOf(PoolIds(pool), graph) })

\* The value of the returned round, and the best that can follow it.
ReturnedRoundValue ==
    LET graph == build_graph(WorkingPool, compatibility_matrix, pairing_history, 0,
                             mutual_signals, extract_scores(compatibility_matrix))
        m == { e \in graph :
                 \E t \in 1..Len(result.pairings) :
                    {e.u, e.v} = {result.pairings[t].attendee_a,
                                  result.pairings[t].attendee_b} }
        rest == BestSchedule(FoldHistory(pairing_history, result.pairings),
                             FoldPitStop(pit_stop_counts, result.pit_stop),
                             rounds_remaining - 1)
    IN <<Cardinality(m) + rest[1], TotalWeight(m) + rest[2]>>

\* C10: the round returned with rounds_remaining = R > 1 is the first round
\* of an R-round no-repeat schedule whose total number of matched pairs, and
\* then total composite score, is the largest any such schedule reaches.
C10_LookaheadOptimal ==
    (pc = "solved" /\ Len(active_pool) >= 2 /\ rounds_remaining > 1)
    => ReturnedRoundValue = BestSchedule(pairing_history, pit_stop_counts, rounds_remaining)

\* The pairs of a pool that are not forbidden under a history, as edges.
PairsAllowed(pool, history) ==
    { [u |-> pool[p[1]].id, v |-> pool[p[2]].id, weight |-> 0] :
      p \in { q \in (1..Len(pool)) \X (1..Len(pool)) :
                q[1] < q[2] /\ ~Forbidden(pool[q[1]], pool[q[2]], history) } }

\* Whether some no-repeat schedule of k rounds over the pool, from a history
\* and pit-stop counts on, pairs in every round every pool member except the
\* round's pit stop (the selector's pick for the counts of that round).
RECURSIVE FullScheduleExists(_, _, _)
FullScheduleExists(history, counts, k) ==
    IF k = 0 THEN TRUE
    ELSE LET odd == Len(active_pool) % 2 = 1
             pit == IF odd THEN choose_pit_stop(active_pool, counts) ELSE NoneId
             pool == IF odd THEN WithoutId(active_pool, pit) ELSE active_pool
         IN \E m \in MatchingsOf(PoolIds(pool), PairsAllowed(pool, history)) :
               /\ 2 * Cardinality(m) = Len(pool)
               /\ FullScheduleExists(history \cup EdgeKeys(m), FoldPitStop(counts, pit), k - 1)

\* The rounds of the event folded so far, the history the event started
\* from, and the number of rounds it started with.
FoldedRounds == 1..(Len(rounds_log) - 1)
EventHistory == pairing_history \ UNION { rounds_log[i] : i \in FoldedRounds }
EventRounds == rounds_remaining + Len(rounds_log) - 1

\* C11: over a full event on a fixed pool, with rounds_remaining counting
\* down from R and every round folded into the history and the counts, every
\* round pairs every pool member except its pit stop, whenever some no-repeat
\* schedule of R rounds does so.
C11_FullEvent ==
    (/\ pc = "solved" /\ pool_changes = 0
     /\ Len(active_pool) >= 2 /\ rounds_remaining >= 1
     /\ FullScheduleExists(EventHistory, EmptyCounts, EventRounds))
    => \A i \in DOMAIN rounds_log :
          2 * Cardinality(rounds_log[i]) = Len(active_pool) - (Len(active_pool) % 2)

\* C12: for a round with k returned pairings the table numbers are exactly
\* 1..k, each used by exactly one pairing.
C12_TableNumbers ==
    pc = "solved" =>
        LET k == Len(result.pairings)
        IN /\ { result.pairings[t].table_number : t \in 1..k } = 1..k
           /\ \A t, u \in 1..k :
                 t # u => result.pairings[t].table_number # result.pairings[u].table_number

\* A round of two pairings, numbered 1 and 2, was returned.
C12_Witness ==
    /\ pc = "solved"
    /\ Len(result.pairings) = 2
    /\ result.pairings[1].table_number = 1
    /\ result.pairings[2].table_number = 2

\* sorted([id_a, id_b]) of a pairing, as a tuple.
SortedIds(p) ==
    IF StrLess(p.attendee_b, p.attendee_a) THEN <<p.attendee_b, p.attendee_a>>
    ELSE <<p.attendee_a, p.attendee_b>>

\* C13: within a round, a pairing with a lower table number has the smaller
\* sorted (smaller id, larger id) tuple, so the numbering depends on the
\* matching set alone and not on the orientation the matching routine
\* reports each pair in.
C13_TableOrder ==
    pc = "solved" =>
        \A t, u \in 1..Len(result.pairings) :
            result.pairings[t].table_number < result.pairings[u].table_number
            => TupleLess(SortedIds(result.pairings[t]), SortedIds(result.pairings[u]))

\* The pair match_score was called on, its key and its matrix entry.
ScoredA == roster[1]
ScoredB == roster[2]
ScoredPairKey == make_pair_key(ScoredA.id, ScoredB.id)
HasEntry == ScoredPairKey \in DOMAIN compatibility_matrix
ExternalScore == IF HasEntry THEN compatibility_matrix[ScoredPairKey].score ELSE 0

\* match_score of two attendees under the side tables of the state.
ScoreOf(a, b) ==
    match_score(a, b, compatibility_matrix, pairing_history, mutual_signals,
                extract_scores(compatibility_matrix)).num

Bonuses(a, b) == role_bonus(a, b) + lane_bonus(a, b) + climate_bonus(a, b)

\* The external score between two people, 0 without an entry.
ScoreBetween(x, y) ==
    LET k == make_pair_key(x, y)
    IN IF k \in DOMAIN compatibility_matrix THEN compatibility_matrix[k].score ELSE 0

\* The signal list of a source, empty when there is none.
SignalList(src) ==
    IF mutual_signals.is_none THEN <<>>
    ELSE IF src \in DOMAIN mutual_signals.map THEN mutual_signals.map[src] ELSE <<>>

\* The entries of the source's list, and the people in it, whose external
\* score with the other person is above 70.
BoostingEntries(src, other) ==
    { i \in 1..Len(SignalList(src)) : ScoreBetween(other, SignalList(src)[i]) > 70 }
BoostingPeople(src, other) ==
    { SignalList(src)[i] : i \in BoostingEntries(src, other) }

EntryBoost ==
    5 * (Cardinality(BoostingEntries(ScoredA.id, ScoredB.id))
         + Cardinality(BoostingEntries(ScoredB.id, ScoredA.id)))
PairBoost ==
    5 * (Cardinality(BoostingPeople(ScoredA.id, ScoredB.id))
         + Cardinality(BoostingPeople(ScoredB.id, ScoredA.id)))

\* C14: for a non-forbidden pair without any matrix entry, match_score is
\* exactly twice the sum of the role, lane and climate bonuses, without signal
\* boost, and positive when a bonus applies; a pair whose entry has score 0 is
\* not doubled and gets the bonuses plus the signal boost.
C14_WalkUpFallback ==
    (pc = "scored" /\ ~Forbidden(ScoredA, ScoredB, pairing_history))
    => /\ ~HasEntry
            => /\ score = Finite(2 * Bonuses(ScoredA, ScoredB))
               /\ Bonuses(ScoredA, ScoredB) > 0 => score.num > 0
       /\ (HasEntry /\ ExternalScore = 0)
            => score = Finite(Bonuses(ScoredA, ScoredB) + EntryBoost)

\* A pair without an entry was scored at twice its bonuses although its
\* signals would have boosted it.
C14_Witness ==
    /\ pc = "scored"
    /\ ~HasEntry
    /\ EntryBoost > 0
    /\ Bonuses(ScoredA, ScoredB) > 0
    /\ score = Finite(2 * Bonuses(ScoredA, ScoredB))

\* The part of the score that comes from the roles: the score less that of
\* the same pair with both roles equal and neither seeking the other's.
SameRoles(a) == [a EXCEPT !.role = "engineering", !.role_needed = "product"]
RoleBonusObserved == score.num - ScoreOf(SameRoles(ScoredA), SameRoles(ScoredB))

FirstRoleBonus ==
    IF ScoredA.role # ScoredB.role /\ ScoredA.role_needed = ScoredB.role THEN 15 ELSE 0

\* C15 as stated: +15 when the roles differ and A seeks B's role, and a
\* further +15 whenever B seeks A's role.
C15_RoleBonusAsStated ==
    (pc = "scored" /\ ~score.neg_inf /\ HasEntry)
    => RoleBonusObserved
         = FirstRoleBonus + (IF ScoredB.role_needed = ScoredA.role THEN 15 ELSE 0)

\* C15, amended: when the roles differ, +15 if A seeks B's role and a further
\* +15, independently, if B seeks A's role; nothing when the roles are equal.
\* The bonus is 0, 15 or 30, and 30 exactly when the pair is complementary
\* both ways.
C15_RoleBonus ==
    (pc = "scored" /\ ~score.neg_inf /\ HasEntry)
    => /\ RoleBonusObserved
            = FirstRoleBonus
              + (IF ScoredA.role # ScoredB.role /\ ScoredB.role_needed = ScoredA.role
                 THEN 15 ELSE 0)
       /\ RoleBonusObserved \in {0, 15, 30}
       /\ RoleBonusObserved = 30
            <=> /\ ScoredA.role # ScoredB.role
                /\ ScoredA.role_needed = ScoredB.role
                /\ ScoredB.role_needed = ScoredA.role

\* A pair of different roles in which only B seeks A's role got 15.
C15_Witness ==
    /\ pc = "scored" /\ ~score.neg_inf /\ HasEntry
    /\ ScoredA.role # ScoredB.role
    /\ ScoredA.role_needed # ScoredB.role
    /\ ScoredB.role_needed = ScoredA.role
    /\ RoleBonusObserved = 15

Complementary(a, b) ==
    a.role # b.role /\ (a.role_needed = b.role \/ b.role_needed = a.role)
IdeaJoiner(a, b) ==
    (a.lane = "idea" /\ b.lane = "joiner") \/ (a.lane = "joiner" /\ b.lane = "idea")
Tags == {"energy", "water", "food"}
WithTag(a, tag) == [a EXCEPT !.climate_areas = @ \cup {tag}]

BoostObserved == score.num - (ExternalScore + Bonuses(ScoredA, ScoredB))

SignalsAbsent == mutual_signals.is_none \/ DOMAIN mutual_signals.map = {}

\* C17 as stated: the boost is 5 for each (source, X) pair: a person listed
\* twice by a source counts once.
C17_SignalBoostAsStated ==
    (pc = "scored" /\ ~Forbidden(ScoredA, ScoredB, pairing_history) /\ HasEntry)
    => BoostObserved = PairBoost

\* C17, amended: for a non-forbidden pair with a matrix entry the boost is 5
\* for each entry X of a source's signal list, over both directions, whose
\* external score with the other person is above 70 (70 adds nothing); it is
\* never negative and is 0 when the signal map is None or empty; the pair is
\* forbidden with signals exactly when it is forbidden without.
C17_SignalBoost ==
    pc = "scored"
    => /\ score.neg_inf <=> Forbidden(ScoredA, ScoredB, pairing_history)
       /\ (~Forbidden(ScoredA, ScoredB, pairing_history) /\ HasEntry)
            => /\ BoostObserved = EntryBoost
               /\ BoostObserved >= 0
               /\ SignalsAbsent => BoostObserved = 0

\* A pair was boosted by 10, from two entries of A's list, while an entry of
\* B's list with a score of exactly 70 added nothing.
C17_Witness ==
    /\ pc = "scored" /\ ~score.neg_inf /\ HasEntry
    /\ BoostObserved = 10
    /\ Cardinality(BoostingEntries(ScoredA.id, ScoredB.id)) = 2
    /\ \E i \in 1..Len(SignalList(ScoredB.id)) :
          ScoreBetween(ScoredA.id, SignalList(ScoredB.id)[i]) = 70

\* C18: a solve_round call leaves the caller's pairing_history,
\* pit_stop_counts, compatibility matrix and pool exactly as they were,
\* although the simulated later rounds add pairs to a history and increment
\* pit-stop counts.
C18_NoEffectOnInputs ==
    [][(pc = "idle" /\ pc' = "solved")
       => /\ pairing_history' = pairing_history
          /\ pit_stop_counts' = pit_stop_counts
          /\ compatibility_matrix' = compatibility_matrix
          /\ active_pool' = active_pool]_vars

\* A call on an odd pool with more rounds to simulate has returned a round
\* with pairings and a pit stop, and the history does not hold its pairs.
C18_Witness ==
    /\ pc = "solved"
    /\ rounds_remaining >= 2
    /\ Len(active_pool) % 2 = 1
    /\ result.pit_stop # NoneId
    /\ Len(result.pairings) >= 1
    /\ PairKeys(result.pairings) \cap pairing_history = {}
    /\ CountOf(pit_stop_counts, result.pit_stop) = 0

\* Every pair of the pool is forbidden under the call's history.
AllPairsForbidden ==
    \A i, j \in 1..Len(active_pool) :
        i < j => Forbidden(active_pool[i], active_pool[j], pairing_history)

\* The member the selector's key (count, is walk-up, id) puts first.
SelectorsPick(id) ==
    /\ id \in PoolIds(active_pool)
    /\ \A i \in 1..Len(active_pool) :
          active_pool[i].id # id => PitKeyBefore(PoolMember(id), active_pool[i])

\* C19 as stated: a pool of 0 or 1 gives no pairings and no pit stop, and a
\* pool of two or more in which every pair is forbidden gives no pairings and
\* the selector's pick as pit stop when odd, none when even.
C19_DegenerateAsStated ==
    pc = "solved"
    => /\ Len(active_pool) < 2 => result = NoRound
       /\ (Len(active_pool) >= 2 /\ AllPairsForbidden)
            => /\ result.pairings = <<>>
               /\ IF Len(active_pool) % 2 = 1 THEN SelectorsPick(result.pit_stop)
                  ELSE result.pit_stop = NoneId

\* C19, amended: as stated for rounds_remaining >= 1; with rounds_remaining
\* = 0 every pool gives no pairings and no pit stop.
C19_Degenerate ==
    pc = "solved"
    => /\ Len(active_pool) < 2 => result = NoRound
       /\ rounds_remaining = 0 => result = NoRound
       /\ (Len(active_pool) >= 2 /\ AllPairsForbidden /\ rounds_remaining >= 1)
            => /\ result.pairings = <<>>
               /\ IF Len(active_pool) % 2 = 1 THEN SelectorsPick(result.pit_stop)
                  ELSE result.pit_stop = NoneId

\* A pool of three who have all met was solved with a round left: no
\* pairings, and a pit stop.
C19_Witness ==
    /\ pc = "solved"
    /\ Len(active_pool) = 3
    /\ AllPairsForbidden
    /\ rounds_remaining >= 1
    /\ result.pairings = <<>>
    /\ result.pit_stop # NoneId

\* The two unordered pairs of ids the keys were made of.
FirstPair == {roster[1].id, roster[2].id}
SecondPair == {roster[3].id, roster[4].id}

HasColon(id) == \E i \in 1..Len(id) : id[i] = Colon

\* C20 as stated: key(a, b) = key(b, a) for all ids, and two different
\* unordered pairs of ids never have the same key.
C20_PairKeyAsStated ==
    pc = "keyed"
    => /\ pair_keys[1] = pair_keys[2]
       /\ FirstPair # SecondPair => pair_keys[1] # pair_keys[3]

\* C20, amended: key(a, b) = key(b, a) for all ids, and two different
\* unordered pairs of ids that do not contain ":" never have the same key.
C20_PairKey ==
    pc = "keyed"
    => /\ pair_keys[1] = pair_keys[2]
       /\ (/\ FirstPair # SecondPair
           /\ \A id \in FirstPair \cup SecondPair : ~HasColon(id))
            => pair_keys[1] # pair_keys[3]

\* Keys were made of two different pairs of ids without ":" that share an
\* id, the first pair given larger id first.
C20_Witness ==
    /\ pc = "keyed"
    /\ \A id \in FirstPair \cup SecondPair : ~HasColon(id)
    /\ FirstPair # SecondPair
    /\ FirstPair \cap SecondPair # {}
    /\ StrLess(roster[2].id, roster[1].id)
    /\ pair_keys[1] = pair_keys[2]
    /\ pair_keys[1] # pair_keys[3]

\* A step that answers a request of the given kind.
Answers(op) == response'.serial # response.serial /\ response'.op = op

\* C21: an advance-round request made when rounds_remaining <= 0 is answered
\* with status 400 and leaves the event state, the pairing history, the
\* pit-stop counts and the current pairings as they were; any other
\* advance-round request is accepted, raises round_number by exactly 1, lowers
\* rounds_remaining by exactly 1 and sets the status to round-active; and
\* rounds_remaining never goes below 0.
C21_AdvanceRound ==
    [][/\ Answers("advance-round") =>
             /\ (state.rounds_remaining <= 0) <=> (response'.status = 400)
             /\ (state.rounds_remaining > 0) <=> (response'.status = 200)
             /\ response'.status = 400 =>
                   UNCHANGED <<state, pairing_history, pit_stop_counts, current_pairings>>
             /\ response'.status = 200 =>
                   /\ state'.round_number = state.round_number + 1
                   /\ state'.rounds_remaining = state.rounds_remaining - 1
                   /\ state'.status = "round-active"
       /\ state'.rounds_remaining >= 0]_vars

\* A request is rejected after the rounds of the event have run out.
C21_Witness ==
    /\ response.op = "advance-round"
    /\ response.status = 400
    /\ state.round_number = MaxTotalRounds
    /\ state.rounds_remaining = 0
    /\ current_pairings # None

\* The timer is running, and the time it has left in ticks (negative when
\* the end has passed).
TimerRunning == state.timer_end # None /\ ~state.timer_paused
TicksLeft == state.timer_end[1] - now

\* The three timer fields agree: paused exactly when a remaining time is
\* stored, and no end time while paused.
TimerFieldsAgree(st) ==
    /\ st.timer_paused <=> (st.timer_remaining # None)
    /\ st.timer_paused => st.timer_end = None

\* What resume does to a paused timer, and what pause and resume leave alone.
ResumeAndNoOps ==
    /\ Answers("resume") /\ state.timer_paused =>
          /\ state'.timer_end = Some(now + state.timer_remaining[1] * TicksPerSecond)
          /\ state'.timer_remaining = None
          /\ ~state'.timer_paused
    /\ Answers("pause") /\ ~TimerRunning => state' = state
    /\ Answers("resume") /\ ~state.timer_paused => state' = state

\* C22 as stated: the timer fields agree in every state, pause on a running
\* timer stores exactly max(0, end - now) and clears timer_end, resume on a
\* paused timer sets timer_end = now + timer_remaining and clears
\* timer_remaining, and pause when paused or never started and resume when not
\* paused change nothing.
C22_TimerAsStated ==
    [][/\ TimerFieldsAgree(state')
       /\ Answers("pause") /\ TimerRunning =>
             /\ state'.timer_remaining # None
             /\ state'.timer_remaining[1] * TicksPerSecond
                   = (IF TicksLeft > 0 THEN TicksLeft ELSE 0)
             /\ state'.timer_end = None
       /\ ResumeAndNoOps]_vars

\* C22: the timer fields agree in every state; pause on a running timer
\* stores the whole seconds of max(0, end - now), the fraction of a second
\* dropped, and clears timer_end; resume on a paused timer sets
\* timer_end = now + timer_remaining and clears timer_remaining; pause when
\* paused or never started and resume when not paused change nothing.
C22_Timer ==
    [][/\ TimerFieldsAgree(state')
       /\ Answers("pause") /\ TimerRunning =>
             /\ state'.timer_remaining # None
             /\ state'.timer_remaining[1] >= 0
             /\ TicksLeft <= 0 => state'.timer_remaining[1] = 0
             /\ TicksLeft > 0 =>
                   /\ state'.timer_remaining[1] * TicksPerSecond <= TicksLeft
                   /\ TicksLeft < (state'.timer_remaining[1] + 1) * TicksPerSecond
             /\ state'.timer_end = None
       /\ ResumeAndNoOps]_vars

\* A timer paused with a fraction of a second left and then resumed: the new
\* end is earlier than the clock plus the time that was left.
C22_Witness ==
    /\ response.op = "resume"
    /\ state.timer_end # None
    /\ state.round_number = 1
    /\ state.timer_end[1] < RoundTicks
    /\ state.timer_end[1] + TicksPerSecond > RoundTicks

\* The signal stored for a sender in a round points at the target.
PointsAt(round_number, sender, target) ==
    /\ round_number \in DOMAIN signals
    /\ sender \in DOMAIN signals[round_number]
    /\ signals[round_number][sender] = target

\* The two ways of writing a pair with the delimiter between the ids.
Joined(x, y) == x \o <<Colon>> \o y

\* C23: record_signal(r, from, to) for two distinct attendees answers mutual,
\* and adds the pair's key to the mutual-match set, exactly when the signal
\* stored for `to` in the same round r points back at `from`; otherwise the
\* set is left as it was.  The set never holds a pair under both orders of
\* its ids, and never holds a pair whose members' signals met only across
\* different rounds.
C23_MutualSignals ==
    [][\A round_number \in SignalRounds :
       \A from_id \in SignalIds, to_id \in SignalIds :
          from_id # to_id /\ RecordSignal(round_number, from_id, to_id) =>
             /\ response'.mutual <=> PointsAt(round_number, to_id, from_id)
             /\ response'.mutual =>
                   /\ (Joined(from_id, to_id) \in mutual_matches'
                       \/ Joined(to_id, from_id) \in mutual_matches')
                   /\ ~(Joined(from_id, to_id) \in mutual_matches'
                        /\ Joined(to_id, from_id) \in mutual_matches')
                   /\ mutual_matches \subseteq mutual_matches'
                   /\ Cardinality(mutual_matches' \ mutual_matches) <= 1
             /\ ~response'.mutual => mutual_matches' = mutual_matches
             /\ ~PointsAt(round_number, to_id, from_id) =>
                   mutual_matches' = mutual_matches]_vars

\* Two reciprocal signals of round 1 alone: the second was answered mutual
\* and the set holds the one key of the pair.
C23_Witness ==
    /\ response.op = "signal"
    /\ response.mutual
    /\ DOMAIN signals = {1}
    /\ DOMAIN signals[1] = { AllIds[1], AllIds[2] }
    /\ signals[1][AllIds[1]] = AllIds[2]
    /\ signals[1][AllIds[2]] = AllIds[1]
    /\ mutual_matches = { make_pair_key(AllIds[1], AllIds[2]) }

\* The tables of a round where an attendee sits, their table number and the
\* other attendee at their table.
TablesOf(pairings, id) ==
    { t \in 1..Len(pairings) : pairings[t].attendee_a = id \/ pairings[t].attendee_b = id }
TableNumberOf(pairings, id) ==
    pairings[CHOOSE t \in TablesOf(pairings, id) : TRUE].table_number
PartnerOf(pairings, id) ==
    LET p == pairings[CHOOSE t \in TablesOf(pairings, id) : TRUE]
    IN IF p.attendee_a = id THEN p.attendee_b ELSE p.attendee_a
TableNumbers(pairings) == { pairings[t].table_number : t \in 1..Len(pairings) }

\* x and y sit at two different tables of the round.
AtDifferentTables(pairings, x, y) ==
    /\ TablesOf(pairings, x) # {}
    /\ TablesOf(pairings, y) # {}
    /\ TablesOf(pairings, x) \cap TablesOf(pairings, y) = {}

\* C24: swap_pairing(x, y) on the current round, with x and y seated at
\* different tables, keeps the number of pairings, the table numbers, the
\* seated ids, the pit stop and every other table, leaves each attendee at
\* exactly one table, and seats x with y's former partner at y's former table
\* and y with x's former partner at x's former table; when either id is not
\* seated or both sit at the same table the round is left as it was; and with
\* no current round the request is answered with status 400.
C24_Swap ==
    [][\A x \in SwapIds, y \in SwapIds :
          (Answers("swap") /\ Swap(x, y)) =>
             IF current_pairings = None
             THEN response'.status = 400 /\ current_pairings' = None
             ELSE LET before == current_pairings[1].pairings
                      after == current_pairings'[1].pairings
                  IN /\ response'.status = 200
                     /\ current_pairings' # None
                     /\ current_pairings'[1].pit_stop = current_pairings[1].pit_stop
                     /\ current_pairings'[1].round_number = current_pairings[1].round_number
                     /\ IF AtDifferentTables(before, x, y)
                        THEN /\ Len(after) = Len(before)
                             /\ TableNumbers(after) = TableNumbers(before)
                             /\ Seated(after) = Seated(before)
                             /\ \A id \in Seated(after) :
                                   Cardinality(TablesOf(after, id)) = 1
                             /\ PartnerOf(after, x) = PartnerOf(before, y)
                             /\ TableNumberOf(after, x) = TableNumberOf(before, y)
                             /\ PartnerOf(after, y) = PartnerOf(before, x)
                             /\ TableNumberOf(after, y) = TableNumberOf(before, x)
                             /\ \A t \in 1..Len(before) :
                                   t \notin TablesOf(before, x) \cup TablesOf(before, y)
                                      => after[t] = before[t]
                        ELSE current_pairings' = current_pairings]_vars

\* A swap was made in a round with a pit stop: attendee "2" and attendee "a"
\* have changed tables.
C24_Witness ==
    /\ response.op = "swap"
    /\ response.status = 200
    /\ current_pairings # None
    /\ current_pairings[1].pit_stop # NoneId
    /\ response.round = current_pairings
    /\ \E t \in 1..Len(current_pairings[1].pairings) :
          /\ current_pairings[1].pairings[t].composite_score = Finite(0)
          /\ AllIds[1] \in { current_pairings[1].pairings[t].attendee_a,
                             current_pairings[1].pairings[t].attendee_b }

\* A step in which an advance-round request is accepted, and the attendees
\* whose persisted pit-stop count the step changes.
Accepted == Answers("advance-round") /\ response'.status = 200
CountChanged ==
    { id \in PoolIds(roster) \cup DOMAIN pit_stop_counts \cup DOMAIN pit_stop_counts' :
        CountOf(pit_stop_counts', id) # CountOf(pit_stop_counts, id) }

\* The step raises the count of the round's reported pit stop by 1 and
\* changes no other count.
CountsOnePitStop ==
    /\ response'.round[1].pit_stop # NoneId
    /\ CountChanged = { response'.round[1].pit_stop }
    /\ CountOf(pit_stop_counts', response'.round[1].pit_stop)
          = CountOf(pit_stop_counts, response'.round[1].pit_stop) + 1

\* C25 as stated: every accepted advance_round raises the persisted pit-stop
\* count of exactly one attendee, the round's reported pit stop, by exactly 1
\* when the active pool is odd, and changes no count when it is even.
C25_PitStopCountAsStated ==
    [][Accepted =>
          IF Len(active_pool) % 2 = 1 THEN CountsOnePitStop
          ELSE CountChanged = {} /\ response'.round[1].pit_stop = NoneId]_vars

\* C25: every accepted advance_round raises the persisted pit-stop count of
\* exactly one attendee, the round's reported pit stop, by exactly 1 when the
\* active pool is odd and has at least three members, and changes no count
\* when the pool is even or holds a single attendee.
C25_PitStopCount ==
    [][Accepted =>
          IF Len(active_pool) % 2 = 1 /\ Len(active_pool) >= 3 THEN CountsOnePitStop
          ELSE CountChanged = {} /\ response'.round[1].pit_stop = NoneId]_vars

\* The second round of a pool of five: its pit stop has sat out once, and so
\* has the pit stop of the first round.
C25_Witness ==
    /\ response.op = "advance-round"
    /\ response.status = 200
    /\ Len(active_pool) = 5
    /\ state.round_number = 2
    /\ response.round[1].pit_stop # NoneId
    /\ CountOf(pit_stop_counts, response.round[1].pit_stop) = 1
    /\ Cardinality({ id \in DOMAIN pit_stop_counts : pit_stop_counts[id] = 1 }) = 2

\* The requests that have been answered, and those among them that were
\* accepted.
AllAnswered == \A q \in Requesters : requests[q].pc \in {"done", "rejected"}
AcceptedRequests == { q \in Requesters : requests[q].pc = "done" }

\* C26: under any interleaving of two concurrent advance-round requests the
\* outcome is that of running them one after the other: rounds_remaining
\* never falls below 0, and once both are answered round_number has risen by
\* the number of accepted requests, as many rounds are stored as requests
\* were accepted, the pairings of the earlier round are in the history, and
\* the rounds of two accepted requests share no pair key.
C26_Serialized ==
    /\ state.rounds_remaining >= 0
    /\ AllAnswered =>
          /\ state.round_number = Cardinality(AcceptedRequests)
          /\ DOMAIN round_pairings = 1..Cardinality(AcceptedRequests)
          /\ \A n \in DOMAIN round_pairings :
                n < state.round_number =>
                   PairKeys(round_pairings[n].pairings) \subseteq pairing_history
          /\ \A q1 \in AcceptedRequests, q2 \in AcceptedRequests :
                q1 # q2 => PairKeys(requests[q1].solved.pairings)
                              \cap PairKeys(requests[q2].solved.pairings) = {}

\* The external score of two ids with the role, lane and climate bonuses and
\* the signal boost, as match_score adds them for a pair that has a matrix
\* entry and is not forbidden.
EntryScore(id_a, id_b) ==
    LET a == AttendeeWithId(active_pool, id_a)
        b == AttendeeWithId(active_pool, id_b)
        boosted == ~mutual_signals.is_none /\ DOMAIN mutual_signals.map # {}
    IN ScoreBetween(id_a, id_b) + Bonuses(a, b)
       + (IF boosted
          THEN signal_boost(id_a, id_b, mutual_signals.map, extract_scores(compatibility_matrix))
               + signal_boost(id_b, id_a, mutual_signals.map, extract_scores(compatibility_matrix))
          ELSE 0)

\* The weight of the edge between two ids in the graph of the round.
GraphWeight(id_a, id_b) ==
    LET graph == build_graph(WorkingPool, compatibility_matrix, pairing_history,
                             rounds_remaining, mutual_signals,
                             extract_scores(compatibility_matrix))
    IN (CHOOSE e \in graph : {e.u, e.v} = {id_a, id_b}).weight

\* C27: the composite_score of each returned pairing is match_score of the
\* two people against the history passed into the call: it is finite, it is
\* the undiscounted score whatever rounds_remaining is, and it is negative
\* when the score is negative; the graph weight of the pair is that score
\* clamped at 0, times 0.95 exactly when rounds_remaining > 3.
C27_CompositeScore ==
    pc = "solved" =>
        \A t \in 1..Len(result.pairings) :
           LET p == result.pairings[t]
               a == AttendeeWithId(active_pool, p.attendee_a)
               b == AttendeeWithId(active_pool, p.attendee_b)
           IN /\ ~p.composite_score.neg_inf
              /\ ~Forbidden(a, b, pairing_history)
              /\ p.composite_score = match_score(a, b, compatibility_matrix,
                                                 pairing_history, mutual_signals,
                                                 extract_scores(compatibility_matrix))
              /\ p.composite_score.num = EntryScore(p.attendee_a, p.attendee_b)
              /\ GraphWeight(p.attendee_a, p.attendee_b) =
                    (IF p.composite_score.num <= 0 THEN 0
                     ELSE IF rounds_remaining > DiscountAbove
                     THEN DiscountedScale * p.composite_score.num
                     ELSE WeightScale * p.composite_score.num)

\* A round solved with more than three rounds remaining that seats a pair
\* with a negative score next to a pair with a positive one.
C27_Witness ==
    /\ pc = "solved"
    /\ rounds_remaining > DiscountAbove
    /\ \E t \in 1..Len(result.pairings) : result.pairings[t].composite_score.num < 0
    /\ \E t \in 1..Len(result.pairings) : result.pairings[t].composite_score.num > 0


\* C28: no pair of attendees is seated together in the final pairings of two
\* different rounds: the pairs of a round, the ones made by a manual swap
\* included, are absent from the pairings recorded for every earlier round.
C28_NoRepeatAcrossRounds ==
    \A m \in DOMAIN round_pairings, n \in DOMAIN round_pairings :
       m < n => PairKeys(round_pairings[m].pairings)
                   \cap PairKeys(round_pairings[n].pairings) = {}


\* The results solve_round can return on the current inputs when it is told
\* that r rounds remain.
ResultsWith(r) ==
    solve_round(active_pool, compatibility_matrix, pairing_history, r,
                pit_stop_counts, mutual_signals)

C30_Symmetric ==
    pc = "scored"
    => match_score(ScoredB, ScoredA, compatibility_matrix, pairing_history,
                   mutual_signals, extract_scores(compatibility_matrix)) = score

\* A pair was scored in which only the first person's role need is met by
\* the other, the first holds the idea and the second is the joiner, and
\* only the first person's signals add a boost.
C30_Witness ==
    /\ pc = "scored" /\ ~score.neg_inf /\ HasEntry
    /\ ScoredA.role # ScoredB.role
    /\ ScoredA.role_needed = ScoredB.role
    /\ ScoredB.role_needed # ScoredA.role
    /\ ScoredA.lane = "idea" /\ ScoredB.lane = "joiner"
    /\ ~SignalsAbsent
    /\ DOMAIN mutual_signals.map = {ScoredA.id}
    /\ BoostObserved > 0

====
